---- MODULE Spec2Model ----
(***************************************************************************)
(* ProxyAudioEngine (src/audio_engine.py): a QThread whose run() is the    *)
(* capture/forward loop, a daemon threading.Thread running _analysis_loop, *)
(* a bounded queue.Queue between them, and the GUI thread that calls       *)
(* start(), set_latency_mode() and stop() (src/main.py).                   *)
(*                                                                         *)
(* Every step of a thread between two points where another thread can     *)
(* observe or change shared state is one action.  Time is not modelled: a  *)
(* timed wait (queue.get(timeout=0.5), Thread.join(timeout=1.0)) may       *)
(* return by timeout whenever the thing it waits for has not happened.     *)
(*                                                                         *)
(* Frames are numbered 1, 2, ... in the order the input device delivers    *)
(* them.  Spec follows the first MaxFrames frames.  FairSpec lets the      *)
(* device go on delivering: every later frame is the untracked frame 0,    *)
(* which moves through the engine like any other frame but is left out of  *)
(* the history variables.                                                  *)
(***************************************************************************)
EXTENDS Integers, Sequences, FiniteSets, TLC

\* ---- bounds of the model ----
MaxFrames == 2          \* frames tracked by number
MaxRestarts == 1        \* restart() calls explored on one engine
QueueMaxsize == 1       \* capacity of analysis_queue (queue.Queue(maxsize=20)), scaled
BlackBoxMaxlen == 1     \* capacity of black_box_buffer (deque(maxlen=60)), scaled
MaxRingFrames == 236    \* frames followed through the two ring buffers (RingSpec)
MaxSaves == 2           \* save_black_box() calls explored (SaveSpec)
ChunkRows == 2          \* sample rows of one analysis chunk (buffer_size), scaled
FftSize == 2            \* SignalProcessor(fft_size) (main.py: FFT_SIZE = 4096), scaled
MaxNoiseFrames == 2     \* frames in one calibration buffer (DspSpec)
MaxRejections == 1      \* rejected capture_noise_profile() calls explored (DspSpec)
ProfilingMaxlen == 1    \* profiling_buffer = deque(maxlen=100) (main.py line 280), scaled
CooldownTicks == 2      \* signal_detected_cooldown = 10 (main.py line 1614), scaled
HistoryLength == 2      \* self.history_length = 1200 (main.py line 269), scaled

\* ---- program constants ----
BufferLow == 512
BufferHigh == 4096
DefaultInputRate == 48000
BlackBoxSeconds == 60

\* collections.deque(maxlen=60), as written
BlackBoxDequeMaxlen == 60

\* main.py: the capture buffer's sample rate and chunk size, and the range and
\* the default of the capture-duration slider (seconds)
SAMPLE_RATE == 48000
INPUT_CHUNK == 1024
DurationMin == 5
DurationDefault == 15

\* dsp.py: magnitudes and factors are fixed-point numbers, in hundredths.
Scale == 100
DefaultSpectralFloor == 10
DefaultOversubtraction == 150
\* np.maximum(self.noise_std, 1e-9): the least positive value, scaled
StdEpsilon == 1

Untracked == 0
NoFrame == -1
NoStream == 0
NoPath == 0

\* blackbox_<timestamp>.wav: the names a save can compose, one per second.
Timestamps == 1..MaxSaves
Threads == 1..(MaxRestarts + 1)     \* analysis thread t is spawned by the t-th run()

VARIABLES
    running,            \* self.running: the shared stop flag (TRUE = keep going)
    buffer_size,        \* self.buffer_size
    input_rate,         \* self.input_rate
    dev,                \* self.p / self.input_stream / self.output_stream, and the
                        \* frames_per_buffer the input stream was opened with
    analysis_queue,     \* self.analysis_queue
    analysis_thread,    \* self.analysis_thread: 0 is None, else the thread's number
    black_box_buffer,   \* self.black_box_buffer
    cap_pc,             \* the QThread: position of run()
    raw_data,           \* run()'s local raw_data
    a_pc,               \* each analysis thread: position of _analysis_loop()
    a_raw,              \* each analysis thread's local raw_data
    main_pc,            \* the GUI thread: position inside the engine's API
    in_restart,         \* the GUI thread is inside restart() (stop() then start())
    session,            \* number of start() calls so far
    nread,              \* frames delivered by the input device so far (capped)
    written,            \* history: tracked frames written to the output device
    write_failed,       \* history: tracked frames whose step B raised
    dropped,            \* history: tracked frames not enqueued because the queue was full
    emitted,            \* history: tracked frames emitted by audio_data_ready
    analysis_failed,    \* history: tracked frames whose processing raised
    error_occurred,     \* history: number of error_occurred emissions
    failed,             \* history: the current run() took the outer except
    black_box_maxlen,   \* self.black_box_buffer.maxlen
    capture_buffer,     \* main.py: self.capture_buffer
    capture_maxlen,     \* main.py: self.capture_buffer.maxlen
    slider_capture_duration,    \* main.py: self.slider_capture_duration.value()
    delivered,          \* audio_data_ready emissions the GUI thread has handled
    capture_history,    \* history: everything appended to the current capture deque
    filepath,           \* save_black_box()'s local filepath
    chunks,             \* save_black_box(): the value of list(self.black_box_buffer)
    files,              \* the files under save_dir: path -> audio rows written
    path,               \* main.py save_black_box: what the engine's call returned
    label,              \* main.py: self.label's text
    returned,           \* history: each finished save, its outcome and return value
    noise_mean,         \* SignalProcessor: self.noise_mean
    noise_std,          \* SignalProcessor: self.noise_std
    is_calibrated,      \* SignalProcessor: self.is_calibrated
    spectral_floor,     \* SignalProcessor: self.spectral_floor
    oversubtraction,    \* SignalProcessor: self.oversubtraction
    magnitude_buffer,   \* the argument of capture_noise_profile(), if it was the last call
    profile_outcome,    \* how that call ended: "returned" or "raised"
    magnitude_data,     \* the argument of the last apply_spectral_gate() call
    gated_magnitude,    \* what that call returned
    last_call,          \* the last call made on the SignalProcessor
    threshold,          \* the threshold argument of the last detect_anomaly() call
    is_anomaly,         \* what that call returned
    rejections,         \* history: capture_noise_profile() calls that hit line 67
    signal_detected_cooldown,   \* main.py: self.signal_detected_cooldown
    latest_magnitude,   \* main.py: self.latest_magnitude
    detection_threshold,        \* main.py: self.detection_threshold
    auto_profiling_enabled,     \* main.py: self.auto_profiling_enabled
    profiling_buffer,   \* main.py: self.profiling_buffer
    profiles,           \* main.py: self.profiles, as its items in dict order
    identified,         \* the last run_identification() call: how it ended, its locals
    db_profiles,        \* signal_hunter.db: the rows of table profiles, in rowid order
    saved,              \* history: the array last saved under each name, until deleted
    resample_ratio,     \* engine: self.resample_ratio, as <<output_rate, input_rate>>
    channels,           \* engine: self.channels
    raw_bytes,          \* run(): the bytes input_stream.read() returned
    output_data_float,  \* run(): output_data_float after np.clip, as fractions
    written_bytes,      \* run(): the bytes handed to output_stream.write()
    forward_pc          \* run(): "read" before step B of the loop, "written" after

vars == <<running, buffer_size, input_rate, dev, analysis_queue, analysis_thread,
          black_box_buffer, cap_pc, raw_data, a_pc, a_raw, main_pc, in_restart,
          session, nread, written, write_failed, dropped, emitted, analysis_failed,
          error_occurred, failed, black_box_maxlen, capture_buffer, capture_maxlen,
          slider_capture_duration, delivered, capture_history, filepath, chunks,
          files, path, label, returned, noise_mean, noise_std, is_calibrated,
          spectral_floor, oversubtraction, magnitude_buffer, profile_outcome,
          magnitude_data, gated_magnitude, last_call, threshold, is_anomaly,
          rejections, signal_detected_cooldown, latest_magnitude,
          detection_threshold, auto_profiling_enabled, profiling_buffer, profiles,
          identified, db_profiles, saved, resample_ratio, channels, raw_bytes,
          output_data_float, written_bytes, forward_pc>>

dspVars == <<noise_mean, noise_std, is_calibrated, spectral_floor, oversubtraction,
             magnitude_buffer, profile_outcome, magnitude_data, gated_magnitude,
             last_call, threshold, is_anomaly, rejections>>

\* The state of the ScienceStation window outside the engine.
stationVars == <<signal_detected_cooldown, latest_magnitude, detection_threshold,
                 auto_profiling_enabled, profiling_buffer, profiles, identified,
                 db_profiles>>

saveVars == <<filepath, chunks, files, path, label, returned>>

ringVars == <<black_box_maxlen, capture_buffer, capture_maxlen,
              slider_capture_duration, delivered, capture_history>>

\* The arguments and results of functions called on their own.
callVars == <<saved, resample_ratio, channels, raw_bytes, output_data_float,
              written_bytes, forward_pc>>

\* Step B of the capture loop taken on its own.
forwardVars == <<resample_ratio, channels, raw_bytes, output_data_float,
                 written_bytes, forward_pc>>

\* What the engine's own threads and the engine's API never write.
auxVars == <<ringVars, saveVars, dspVars, stationVars, callVars>>

engineVars == <<running, buffer_size, input_rate, dev, analysis_queue, analysis_thread,
                black_box_buffer>>
histVars == <<nread, written, write_failed, dropped, emitted, analysis_failed, error_occurred, failed>>

Range(s) == {s[i] : i \in 1..Len(s)}

\* main.py update_capture_buffer, line 1665:
\* int(duration_seconds * (self.SAMPLE_RATE / self.INPUT_CHUNK))
CaptureCapacity(duration_seconds) == (duration_seconds * SAMPLE_RATE) \div INPUT_CHUNK

\* The GUI's buffers after ScienceStation.__init__ (lines 266-285, 507).
InitGui ==
    /\ slider_capture_duration = DurationDefault
    /\ capture_maxlen = CaptureCapacity(DurationDefault)
    /\ capture_buffer = <<>>
    /\ capture_history = <<>>
    /\ delivered = 0

\* Nothing has been saved yet.
InitSave ==
    /\ filepath = NoPath
    /\ chunks = <<>>
    /\ files = [t \in Timestamps |-> <<>>]
    /\ path = NoPath
    /\ label = ""
    /\ returned = <<>>

\* SignalProcessor.__init__, line 48
NumBins == FftSize \div 2 + 1

\* Names typed into profile_name_input.
ProfileNames == {"A", "B"}

\* Python values that cross the database: a numpy array of some dimension,
\* or the bytes np.save() makes of one.
NdArray(ndim, value) == [pytype |-> "ndarray", ndim |-> ndim, value |-> value]
Bytes(ndim, value) == [pytype |-> "bytes", ndim |-> ndim, value |-> value]

\* No array: nothing is saved under a name.
NoArray == [pytype |-> "NoneType", ndim |-> 0, value |-> <<>>]

\* Before any run_identification() call, and after any other slot has run.
NotIdentified ==
    [outcome |-> "none", is_anomaly |-> FALSE, gated_magnitude |-> <<>>,
     anomaly_bin |-> 0, best_match |-> "---", highest_score |-> 0,
     lbl_identity |-> "---"]

\* SignalProcessor.__init__, lines 47-55, before any call.
InitDsp ==
    /\ noise_mean = [b \in 1..NumBins |-> 0]
    /\ noise_std = [b \in 1..NumBins |-> Scale]
    /\ is_calibrated = FALSE
    /\ spectral_floor = DefaultSpectralFloor
    /\ oversubtraction = DefaultOversubtraction
    /\ magnitude_buffer = <<>>
    /\ profile_outcome = "none"
    /\ magnitude_data = <<>>
    /\ gated_magnitude = <<>>
    /\ last_call = "none"
    /\ threshold = 0
    /\ is_anomaly = FALSE
    /\ rejections = 0

\* ScienceStation.__init__, main.py lines 266-285, outside the engine.
InitStation ==
    /\ signal_detected_cooldown = 0
    /\ latest_magnitude = [b \in 1..NumBins |-> 0]
    /\ detection_threshold = 10 * Scale
    /\ auto_profiling_enabled = FALSE
    /\ profiling_buffer = <<>>
    /\ profiles = <<>>
    /\ identified = NotIdentified
    /\ db_profiles = <<>>
    /\ saved = [name \in ProfileNames |-> NoArray]

\* Step B of the capture loop before any frame: two channels, and the ratio
\* output_rate / input_rate kept as the pair <<output_rate, input_rate>>.
InitForward ==
    /\ resample_ratio = <<DefaultInputRate, DefaultInputRate>>
    /\ channels = 2
    /\ raw_bytes = <<>>
    /\ output_data_float = <<>>
    /\ written_bytes = <<>>
    /\ forward_pc = "idle"

\* The engine and the window after construction.
InitProgram ==
    /\ black_box_maxlen = BlackBoxMaxlen
    /\ InitGui
    /\ InitSave
    /\ InitDsp
    /\ InitStation
    /\ running = TRUE
    /\ buffer_size = BufferHigh
    /\ input_rate = DefaultInputRate
    /\ dev = [p |-> "none", input_stream |-> "none", output_stream |-> "none",
              frames_per_buffer |-> NoStream]
    /\ analysis_queue = <<>>
    /\ analysis_thread = 0
    /\ black_box_buffer = <<>>
    /\ cap_pc = "idle"
    /\ raw_data = NoFrame
    /\ a_pc = [t \in Threads |-> "unborn"]
    /\ a_raw = [t \in Threads |-> NoFrame]
    /\ main_pc = "idle"
    /\ in_restart = FALSE
    /\ session = 0
    /\ nread = 0
    /\ written = <<>>
    /\ write_failed = {}
    /\ dropped = {}
    /\ emitted = <<>>
    /\ analysis_failed = {}
    /\ error_occurred = 0
    /\ failed = FALSE

Init == InitProgram /\ InitForward

\* ------------------------------------------------------------------
\* The capture/forward context: ProxyAudioEngine.run()
\* ------------------------------------------------------------------

\* QThread.isRunning(): from start() until run() has returned.
isRunning == cap_pc \notin {"idle", "finished"}

\* A full() that answers True one frame late.
QueueFull_OneLate == Len(analysis_queue) >= QueueMaxsize + 1

\* analysis_queue.full()
QueueFull == Len(analysis_queue) >= QueueMaxsize

Tracked(f) == f # Untracked /\ f # NoFrame

\* run(), lines 65-70: the stop flag is (re)armed, the audio host is opened and
\* a new analysis thread is created and started.
RunBegin ==
    /\ cap_pc = "run"
    /\ running' = TRUE
    /\ dev' = [dev EXCEPT !.p = "open"]
    /\ failed' = FALSE
    /\ analysis_thread' = session
    /\ a_pc' = [a_pc EXCEPT ![session] = "loop"]
    /\ cap_pc' = "open_in"
    /\ UNCHANGED <<buffer_size, input_rate, analysis_queue, black_box_buffer,
                   raw_data, a_raw, main_pc, in_restart, session, nread, written,
                   write_failed, dropped, emitted, analysis_failed, error_occurred>>
    /\ UNCHANGED auxVars

\* run(), lines 178-179: the outer handler emits error_occurred; the finally
\* clause is next.
Critical ==
    /\ error_occurred' = error_occurred + 1
    /\ failed' = TRUE
    /\ cap_pc' = "cleanup"

\* run(), lines 74-108: the devices are resolved and the input stream opened
\* with frames_per_buffer=self.buffer_size, or one of these calls raises.
RunOpenInput ==
    /\ cap_pc = "open_in"
    /\ \/ /\ dev' = [dev EXCEPT !.input_stream = "open",
                                !.frames_per_buffer = buffer_size]
          /\ cap_pc' = "open_out"
          /\ UNCHANGED <<error_occurred, failed>>
       \/ /\ dev' = dev
          /\ Critical
    /\ UNCHANGED <<running, buffer_size, input_rate, analysis_queue, analysis_thread,
                   black_box_buffer, raw_data, a_pc, a_raw, main_pc, in_restart,
                   session, nread, written, write_failed, dropped, emitted, analysis_failed>>
    /\ UNCHANGED auxVars

\* run(), lines 110-117: the output stream is opened, or the call raises.
RunOpenOutput ==
    /\ cap_pc = "open_out"
    /\ \/ /\ dev' = [dev EXCEPT !.output_stream = "open"]
          /\ cap_pc' = "loop"
          /\ UNCHANGED <<error_occurred, failed>>
       \/ /\ dev' = dev
          /\ Critical
    /\ UNCHANGED <<running, buffer_size, input_rate, analysis_queue, analysis_thread,
                   black_box_buffer, raw_data, a_pc, a_raw, main_pc, in_restart,
                   session, nread, written, write_failed, dropped, emitted, analysis_failed>>
    /\ UNCHANGED auxVars

\* run(), line 120: while self.running
CaptureLoop ==
    /\ cap_pc = "loop"
    /\ cap_pc' = IF running THEN "read" ELSE "cleanup"
    /\ UNCHANGED <<engineVars, raw_data, a_pc, a_raw, main_pc, in_restart, session,
                   histVars>>
    /\ UNCHANGED auxVars

\* run(), line 123: the blocking device read returns the next frame.
ReadReturns ==
    /\ cap_pc = "read"
    /\ nread < MaxFrames
    /\ raw_data' = nread + 1
    /\ nread' = nread + 1
    /\ cap_pc' = "write"

\* run(), line 123: the device read raises.
ReadRaises ==
    /\ cap_pc = "read"
    /\ UNCHANGED <<raw_data, nread>>
    /\ cap_pc' = "except"

CaptureRead ==
    /\ \/ ReadReturns
       \/ ReadRaises
    /\ UNCHANGED <<engineVars, a_pc, a_raw, main_pc, in_restart, session,
                   written, write_failed, dropped, emitted, analysis_failed, error_occurred, failed>>
    /\ UNCHANGED auxVars

\* run(), line 123, once MaxFrames frames have been numbered: the read returns a
\* further frame, which is not tracked.
CaptureReadUntracked ==
    /\ cap_pc = "read"
    /\ nread >= MaxFrames
    /\ raw_data' = Untracked
    /\ cap_pc' = "write"
    /\ UNCHANGED <<engineVars, a_pc, a_raw, main_pc, in_restart, session, histVars>>
    /\ UNCHANGED auxVars

\* A capture loop that forwards a frame only while the analysis queue has room.
WriteReturns_OnlyWithRoom ==
    /\ cap_pc = "write"
    /\ written' = IF Tracked(raw_data) /\ ~QueueFull THEN Append(written, raw_data)
                  ELSE written
    /\ write_failed' = write_failed
    /\ cap_pc' = "offload"

\* run(), lines 126-168: the frame (resampled when the rates differ) is written
\* to the output device.
WriteReturns ==
    /\ cap_pc = "write"
    /\ written' = IF Tracked(raw_data) THEN Append(written, raw_data) ELSE written
    /\ write_failed' = write_failed
    /\ cap_pc' = "offload"

\* run(), lines 126-168: the resampling or the device write raises.
WriteRaises ==
    /\ cap_pc = "write"
    /\ written' = written
    /\ write_failed' = IF Tracked(raw_data) THEN write_failed \cup {raw_data}
                       ELSE write_failed
    /\ cap_pc' = "except"

CaptureWrite ==
    /\ \/ WriteReturns
       \/ WriteRaises
    /\ UNCHANGED <<engineVars, raw_data, a_pc, a_raw, main_pc, in_restart, session,
                   nread, dropped, emitted, analysis_failed, error_occurred, failed>>
    /\ UNCHANGED auxVars

\* A capture loop that puts every frame without asking whether the queue is full.
CaptureOffload_NoFullCheck ==
    /\ cap_pc = "offload"
    /\ cap_pc' = "put"
    /\ dropped' = dropped
    /\ UNCHANGED <<engineVars, raw_data, a_pc, a_raw, main_pc, in_restart, session,
                   nread, written, write_failed, emitted, analysis_failed, error_occurred, failed>>
    /\ UNCHANGED auxVars

\* run(), line 171: if not self.analysis_queue.full()
CaptureOffload ==
    /\ cap_pc = "offload"
    /\ IF ~QueueFull
         THEN /\ cap_pc' = "put"
              /\ dropped' = dropped
         ELSE /\ cap_pc' = "loop"
              /\ dropped' = IF Tracked(raw_data) THEN dropped \cup {raw_data}
                            ELSE dropped
    /\ UNCHANGED <<engineVars, raw_data, a_pc, a_raw, main_pc, in_restart, session,
                   nread, written, write_failed, emitted, analysis_failed, error_occurred,
                   failed>>
    /\ UNCHANGED auxVars

\* A put that returns without having queued the frame.
CapturePut_Discard ==
    /\ cap_pc = "put"
    /\ ~QueueFull
    /\ analysis_queue' = analysis_queue
    /\ cap_pc' = "loop"
    /\ UNCHANGED <<running, buffer_size, input_rate, dev, analysis_thread,
                   black_box_buffer, raw_data, a_pc, a_raw, main_pc, in_restart,
                   session, histVars>>
    /\ UNCHANGED auxVars

\* run(), line 172: self.analysis_queue.put(raw_data), a blocking put: it waits
\* for as long as the queue is full.
CapturePut ==
    /\ cap_pc = "put"
    /\ ~QueueFull
    /\ analysis_queue' = Append(analysis_queue, raw_data)
    /\ cap_pc' = "loop"
    /\ UNCHANGED <<running, buffer_size, input_rate, dev, analysis_thread,
                   black_box_buffer, raw_data, a_pc, a_raw, main_pc, in_restart,
                   session, histVars>>
    /\ UNCHANGED auxVars

\* A handler that leaves the capture loop instead of continuing it.
CaptureExcept_Abort ==
    /\ cap_pc = "except"
    /\ cap_pc' = "cleanup"
    /\ UNCHANGED <<engineVars, raw_data, a_pc, a_raw, main_pc, in_restart, session,
                   histVars>>
    /\ UNCHANGED auxVars

\* run(), lines 174-176: the inner handler prints and continues the loop.
CaptureExcept ==
    /\ cap_pc = "except"
    /\ cap_pc' = "loop"
    /\ UNCHANGED <<engineVars, raw_data, a_pc, a_raw, main_pc, in_restart, session,
                   histVars>>
    /\ UNCHANGED auxVars

Release(h) == IF h = "open" THEN "closed" ELSE h

\* run(), lines 180-181 and _cleanup(): the handles are released and run()
\* returns, which finishes the QThread.
RunCleanup ==
    /\ cap_pc = "cleanup"
    /\ dev' = [p |-> Release(dev.p),
               input_stream |-> Release(dev.input_stream),
               output_stream |-> Release(dev.output_stream),
               frames_per_buffer |-> dev.frames_per_buffer]
    /\ cap_pc' = "finished"
    /\ UNCHANGED <<running, buffer_size, input_rate, analysis_queue, analysis_thread,
                   black_box_buffer, raw_data, a_pc, a_raw, main_pc, in_restart,
                   session, histVars>>
    /\ UNCHANGED auxVars

CaptureStep ==
    \/ RunBegin
    \/ RunOpenInput
    \/ RunOpenOutput
    \/ CaptureLoop
    \/ CaptureRead
    \/ CaptureWrite
    \/ CaptureOffload
    \/ CapturePut
    \/ CaptureExcept
    \/ RunCleanup

\* ------------------------------------------------------------------
\* The analysis context: ProxyAudioEngine._analysis_loop(), one per thread t
\* ------------------------------------------------------------------

Alive(t) == a_pc[t] \notin {"unborn", "dead"}

\* _analysis_loop(), line 188: while self.running
AnalysisLoop(t) ==
    /\ a_pc[t] = "loop"
    /\ a_pc' = [a_pc EXCEPT ![t] = IF running THEN "get" ELSE "dead"]
    /\ UNCHANGED <<engineVars, cap_pc, raw_data, a_raw, main_pc, in_restart, session,
                   histVars>>
    /\ UNCHANGED auxVars

\* _analysis_loop(), line 191: get(timeout=0.5) returns the oldest frame.
AnalysisGet(t) ==
    /\ a_pc[t] = "get"
    /\ analysis_queue # <<>>
    /\ a_raw' = [a_raw EXCEPT ![t] = Head(analysis_queue)]
    /\ analysis_queue' = Tail(analysis_queue)
    /\ a_pc' = [a_pc EXCEPT ![t] = "process"]
    /\ UNCHANGED <<running, buffer_size, input_rate, dev, analysis_thread,
                   black_box_buffer, cap_pc, raw_data, main_pc, in_restart, session,
                   histVars>>
    /\ UNCHANGED auxVars

\* _analysis_loop(), lines 191 and 215-216: the get times out on an empty queue
\* (queue.Empty) and the loop continues.
AnalysisTimeout(t) ==
    /\ a_pc[t] = "get"
    /\ analysis_queue = <<>>
    /\ a_pc' = [a_pc EXCEPT ![t] = "loop"]
    /\ UNCHANGED <<engineVars, cap_pc, raw_data, a_raw, main_pc, in_restart, session,
                   histVars>>
    /\ UNCHANGED auxVars

\* A bounded buffer that refuses the new element when it is full.
RingAppend_DropNewest(q, x, maxlen) ==
    IF Len(q) >= maxlen THEN q ELSE Append(q, x)

\* collections.deque(maxlen=...).append: the oldest element goes when full.
RingAppend(q, x, maxlen) ==
    IF maxlen = 0 THEN <<>>
    ELSE IF Len(q) >= maxlen THEN Append(Tail(q), x) ELSE Append(q, x)

\* self.black_box_buffer.append(analysis_chunk), line 207
DequeAppend(q, x) == RingAppend(q, x, black_box_maxlen)

\* _analysis_loop(), lines 210-211: int(black_box_seconds * (input_rate / buffer_size))
MaxChunks == (BlackBoxSeconds * input_rate) \div buffer_size

\* _analysis_loop(), lines 207-213: the black box is appended to and trimmed.
BlackBoxAppend(q, x) ==
    LET appended == DequeAppend(q, x)
    IN  IF Len(appended) > MaxChunks THEN Tail(appended) ELSE appended

\* _analysis_loop(), lines 194-213: the frame is converted, reshaped and emitted
\* to the observer (audio_data_ready), then appended to the black box.
AnalysisProcess(t) ==
    /\ a_pc[t] = "process"
    /\ emitted' = IF Tracked(a_raw[t]) THEN Append(emitted, a_raw[t]) ELSE emitted
    /\ black_box_buffer' = BlackBoxAppend(black_box_buffer, a_raw[t])
    /\ a_pc' = [a_pc EXCEPT ![t] = "loop"]
    /\ UNCHANGED <<running, buffer_size, input_rate, dev, analysis_queue,
                   analysis_thread, cap_pc, raw_data, a_raw, main_pc, in_restart,
                   session, nread, written, write_failed, dropped, analysis_failed,
                   error_occurred,
                   failed>>
    /\ UNCHANGED auxVars

\* _analysis_loop(), lines 194-204: the conversion, the reshape or the emit raises.
AnalysisRaise(t) ==
    /\ a_pc[t] = "process"
    /\ a_pc' = [a_pc EXCEPT ![t] = "except"]
    /\ analysis_failed' = IF Tracked(a_raw[t]) THEN analysis_failed \cup {a_raw[t]}
                          ELSE analysis_failed
    /\ UNCHANGED <<engineVars, cap_pc, raw_data, a_raw, main_pc, in_restart, session,
                   nread, written, write_failed, dropped, emitted, error_occurred,
                   failed>>
    /\ UNCHANGED auxVars

\* A handler that ends the analysis loop.
AnalysisExcept_Exit(t) ==
    /\ a_pc[t] = "except"
    /\ a_pc' = [a_pc EXCEPT ![t] = "dead"]
    /\ UNCHANGED <<engineVars, cap_pc, raw_data, a_raw, main_pc, in_restart, session,
                   histVars>>
    /\ UNCHANGED auxVars

\* _analysis_loop(), lines 217-218: the handler prints; the loop goes on.
AnalysisExcept(t) ==
    /\ a_pc[t] = "except"
    /\ a_pc' = [a_pc EXCEPT ![t] = "loop"]
    /\ UNCHANGED <<engineVars, cap_pc, raw_data, a_raw, main_pc, in_restart, session,
                   histVars>>
    /\ UNCHANGED auxVars

AnalysisStep(t) ==
    \/ AnalysisLoop(t)
    \/ AnalysisGet(t)
    \/ AnalysisTimeout(t)
    \/ AnalysisProcess(t)
    \/ AnalysisRaise(t)
    \/ AnalysisExcept(t)

\* ------------------------------------------------------------------
\* The GUI thread: start(), set_latency_mode(), restart(), stop()
\* ------------------------------------------------------------------

\* QThread.start(): run() is scheduled on the engine's thread.
StartThread ==
    /\ cap_pc' = "run"
    /\ session' = session + 1

\* main.py restart_audio_engine, line 592: engine.start() on the new engine.
Start ==
    /\ main_pc = "idle"
    /\ cap_pc = "idle"
    /\ StartThread
    /\ UNCHANGED <<engineVars, raw_data, a_pc, a_raw, main_pc, in_restart, histVars>>
    /\ UNCHANGED auxVars

\* stop(), line 248, up to the wait() of line 249.
StopBegin(restarting) ==
    /\ running' = FALSE
    /\ main_pc' = "stop_wait"
    /\ in_restart' = restarting

\* set_latency_mode(low_latency), lines 50-58 (and restart(), line 61).
SetLatencyMode(low) ==
    /\ main_pc = "idle"
    /\ isRunning => session <= MaxRestarts
    /\ buffer_size' = IF low THEN BufferLow ELSE BufferHigh
    /\ IF isRunning
         THEN StopBegin(TRUE)
         ELSE UNCHANGED <<running, main_pc, in_restart>>
    /\ UNCHANGED <<input_rate, dev, analysis_queue, analysis_thread, black_box_buffer,
                   cap_pc, raw_data, a_pc, a_raw, session, histVars>>
    /\ UNCHANGED auxVars

\* main.py closeEvent (line 1403) and restart_audio_engine (line 572):
\* engine.stop() on a started engine, which is then discarded.
Stop ==
    /\ main_pc = "idle"
    /\ cap_pc # "idle"
    /\ StopBegin(FALSE)
    /\ UNCHANGED <<buffer_size, input_rate, dev, analysis_queue, analysis_thread,
                   black_box_buffer, cap_pc, raw_data, a_pc, a_raw, session, histVars>>
    /\ UNCHANGED auxVars

\* stop(), line 249: self.wait() returns once run() has returned.
StopWait ==
    /\ main_pc = "stop_wait"
    /\ ~isRunning
    /\ main_pc' = "stop_join"
    /\ UNCHANGED <<engineVars, cap_pc, raw_data, a_pc, a_raw, in_restart, session,
                   histVars>>
    /\ UNCHANGED auxVars

\* stop() has returned: restart() goes on to start() (line 62); after a plain
\* stop() the GUI is done with the engine.
StopReturn ==
    IF in_restart
      THEN /\ main_pc' = "idle"
           /\ in_restart' = FALSE
           /\ StartThread
      ELSE /\ main_pc' = "stopped"
           /\ UNCHANGED <<in_restart, cap_pc, session>>

\* stop(), lines 250-251: join(timeout=1.0) returns because the thread ended.
StopJoined ==
    /\ main_pc = "stop_join"
    /\ analysis_thread # 0 => ~Alive(analysis_thread)
    /\ StopReturn
    /\ UNCHANGED <<engineVars, raw_data, a_pc, a_raw, histVars>>
    /\ UNCHANGED auxVars

\* stop(), line 251: join(timeout=1.0) returns because the timeout elapsed.
StopJoinTimeout ==
    /\ main_pc = "stop_join"
    /\ analysis_thread # 0
    /\ Alive(analysis_thread)
    /\ StopReturn
    /\ UNCHANGED <<engineVars, raw_data, a_pc, a_raw, histVars>>
    /\ UNCHANGED auxVars

MainStep ==
    \/ Start
    \/ \E low \in BOOLEAN : SetLatencyMode(low)
    \/ Stop
    \/ StopWait
    \/ StopJoined
    \/ StopJoinTimeout

Next ==
    \/ CaptureStep
    \/ \E t \in Threads : AnalysisStep(t)
    \/ MainStep

Spec == Init /\ [][Next]_vars

\* The same engine with an input device that never runs out of frames.
LongNext ==
    \/ Next
    \/ CaptureReadUntracked

\* The threads are scheduled fairly, a device call that is retried for ever does
\* not fail for ever, and a call the GUI has entered runs on; the GUI is never
\* obliged to issue a new call.
FairSpec ==
    /\ Init /\ [][LongNext]_vars
    /\ WF_vars(CaptureStep \/ CaptureReadUntracked)
    /\ SF_vars((CaptureRead /\ ReadReturns) \/ CaptureReadUntracked)
    /\ SF_vars(CaptureWrite /\ WriteReturns)
    /\ \A t \in Threads : WF_vars(AnalysisStep(t))
    /\ WF_vars(StopWait \/ StopJoined \/ StopJoinTimeout)

\* ------------------------------------------------------------------
\* The ring buffers at the capacities the source gives them (RingSpec)
\* ------------------------------------------------------------------

\* Everything the engine's threads and the engine's API own.
programVars == <<engineVars, cap_pc, raw_data, a_pc, a_raw, main_pc, in_restart,
                 session, histVars>>

\* The GUI thread is in its event loop, not inside a blocking engine call.
GuiIdle == main_pc \in {"idle", "stopped"}

\* collections.deque(iterable, maxlen): of more than maxlen items the last
\* maxlen are kept.
DequeFrom(items, maxlen) ==
    IF Len(items) <= maxlen THEN items
    ELSE SubSeq(items, Len(items) - maxlen + 1, Len(items))

\* main.py update_capture_buffer, lines 1662-1667 (slot of the slider's
\* valueChanged): a new deque of the new capacity is built from the old contents.
UpdateCaptureBuffer(duration_seconds) ==
    /\ GuiIdle
    /\ duration_seconds # slider_capture_duration
    /\ slider_capture_duration' = duration_seconds
    /\ capture_maxlen' = CaptureCapacity(duration_seconds)
    /\ capture_buffer' = DequeFrom(capture_buffer, CaptureCapacity(duration_seconds))
    /\ capture_history' = capture_buffer
    /\ UNCHANGED <<programVars, black_box_maxlen, delivered, saveVars, dspVars, stationVars, callVars>>

\* main.py update_data_stream, lines 1532-1536 (slot of audio_data_ready, run by
\* the GUI thread for each emission in turn): the chunk goes into the capture
\* buffer.
UpdateDataStream ==
    /\ GuiIdle
    /\ delivered < Len(emitted)
    /\ LET new_audio_chunk == emitted[delivered + 1]
       IN  /\ capture_buffer' = RingAppend(capture_buffer, new_audio_chunk,
                                           capture_maxlen)
           /\ capture_history' = Append(capture_history, new_audio_chunk)
    /\ delivered' = delivered + 1
    /\ UNCHANGED <<programVars, black_box_maxlen, capture_maxlen,
                   slider_capture_duration, saveVars, dspVars, stationVars, callVars>>

\* run(), lines 121-172, one iteration without a fault and with room in the
\* queue, taken as one step: the next frame is read, written and put.  RingSpec
\* follows one frame at a time: the next is read once the GUI has the last.
CaptureIteration ==
    /\ cap_pc = "loop"
    /\ running
    /\ nread < MaxRingFrames
    /\ delivered = nread
    /\ ~QueueFull
    /\ nread' = nread + 1
    /\ written' = Append(written, nread + 1)
    /\ analysis_queue' = Append(analysis_queue, nread + 1)
    /\ UNCHANGED <<running, buffer_size, input_rate, dev, analysis_thread,
                   black_box_buffer, cap_pc, raw_data, a_pc, a_raw, main_pc,
                   in_restart, session, write_failed, dropped, emitted, analysis_failed,
                   error_occurred, failed, auxVars>>

\* A started engine whose streams are open and whose loops are running, with
\* the black box as the source constructs it and either latency mode.
RingInit ==
    /\ InitForward
    /\ black_box_maxlen = BlackBoxDequeMaxlen
    /\ InitGui
    /\ InitSave
    /\ InitDsp
    /\ InitStation
    /\ running = TRUE
    /\ buffer_size \in {BufferLow, BufferHigh}
    /\ input_rate = DefaultInputRate
    /\ dev = [p |-> "open", input_stream |-> "open", output_stream |-> "open",
              frames_per_buffer |-> buffer_size]
    /\ analysis_queue = <<>>
    /\ analysis_thread = 1
    /\ black_box_buffer = <<>>
    /\ cap_pc = "loop"
    /\ raw_data = NoFrame
    /\ a_pc = [t \in Threads |-> IF t = 1 THEN "loop" ELSE "unborn"]
    /\ a_raw = [t \in Threads |-> NoFrame]
    /\ main_pc = "idle"
    /\ in_restart = FALSE
    /\ session = 1
    /\ nread = 0
    /\ written = <<>>
    /\ write_failed = {}
    /\ dropped = {}
    /\ emitted = <<>>
    /\ analysis_failed = {}
    /\ error_occurred = 0
    /\ failed = FALSE

RingNext ==
    \/ CaptureIteration
    \/ AnalysisLoop(1)
    \/ AnalysisGet(1)
    \/ AnalysisTimeout(1)
    \/ AnalysisProcess(1)
    \/ UpdateDataStream
    \/ \E d \in {DurationMin, DurationDefault} : UpdateCaptureBuffer(d)

RingSpec == RingInit /\ [][RingNext]_vars

\* ------------------------------------------------------------------
\* Saving the black box: ScienceStation.save_black_box (main.py) calling
\* ProxyAudioEngine.save_black_box, on the GUI thread (SaveSpec)
\* ------------------------------------------------------------------

\* _analysis_loop(), lines 194-201: the analysis chunk of frame f, its rows.
Chunk(f) == [r \in 1..ChunkRows |-> <<f, r>>]

RECURSIVE Concatenate(_)
\* np.concatenate(list_of_chunks): the rows of the chunks, first chunk first.
Concatenate(list) ==
    IF list = <<>> THEN <<>> ELSE Chunk(Head(list)) \o Concatenate(Tail(list))

\* main.py save_black_box, lines 609-612: the label shows the outcome.
SaveReturns(outcome, value) ==
    /\ path' = value
    /\ label' = IF value # NoPath THEN "BLACK BOX SAVED" ELSE "ERROR SAVING BLACK BOX"
    /\ returned' = Append(returned, [outcome |-> outcome, value |-> value])

SavesBegun == Len(returned) + (IF main_pc \in {"save_copy", "save_write"} THEN 1 ELSE 0)

\* main.py line 608 and save_black_box(), lines 221-226: an empty black box
\* returns None at once; otherwise the file name is composed from the clock.
SaveBlackBox ==
    /\ main_pc = "idle"
    /\ SavesBegun < MaxSaves
    /\ IF black_box_buffer = <<>>
         THEN /\ SaveReturns("empty", NoPath)
              /\ UNCHANGED <<main_pc, filepath>>
         ELSE /\ filepath' \in Timestamps
              /\ main_pc' = "save_copy"
              /\ UNCHANGED <<path, label, returned>>
    /\ UNCHANGED <<engineVars, cap_pc, raw_data, a_pc, a_raw, in_restart, session,
                   histVars, ringVars, dspVars, stationVars, callVars, chunks, files>>

\* A copy that fails when an analysis thread is appending meanwhile.
SaveCopy_Racing ==
    /\ main_pc = "save_copy"
    /\ IF \E t \in Threads : a_pc[t] = "process"
         THEN /\ SaveReturns("copy", NoPath)
              /\ main_pc' = "idle"
              /\ chunks' = chunks
         ELSE /\ chunks' = black_box_buffer
              /\ main_pc' = "save_write"
              /\ UNCHANGED <<path, label, returned>>
    /\ UNCHANGED <<engineVars, cap_pc, raw_data, a_pc, a_raw, in_restart, session,
                   histVars, ringVars, dspVars, stationVars, callVars, filepath, files>>

\* save_black_box(), line 230: list(self.black_box_buffer). The copy is made
\* inside one call of the interpreter, which holds the global interpreter lock
\* throughout, so no append of another thread falls inside it.
SaveCopy ==
    /\ main_pc = "save_copy"
    /\ chunks' = black_box_buffer
    /\ main_pc' = "save_write"
    /\ UNCHANGED <<engineVars, cap_pc, raw_data, a_pc, a_raw, in_restart, session,
                   histVars, ringVars, dspVars, stationVars, callVars, filepath, files, path, label, returned>>

\* A save that empties the black box once it is written.
SaveWrite_Drain ==
    /\ main_pc = "save_write"
    /\ files' = [files EXCEPT ![filepath] = Concatenate(chunks)]
    /\ SaveReturns("saved", filepath)
    /\ main_pc' = "idle"
    /\ black_box_buffer' = <<>>
    /\ UNCHANGED <<running, buffer_size, input_rate, dev, analysis_queue,
                   analysis_thread, cap_pc, raw_data, a_pc, a_raw, in_restart,
                   session, histVars, ringVars, dspVars, stationVars, callVars, filepath, chunks>>

\* save_black_box(), lines 230-232: the chunks are concatenated and written to
\* filepath (an existing file of that name is replaced); the path is returned.
SaveWrite ==
    /\ main_pc = "save_write"
    /\ files' = [files EXCEPT ![filepath] = Concatenate(chunks)]
    /\ SaveReturns("saved", filepath)
    /\ main_pc' = "idle"
    /\ UNCHANGED <<engineVars, cap_pc, raw_data, a_pc, a_raw, in_restart, session,
                   histVars, ringVars, dspVars, stationVars, callVars, filepath, chunks>>

\* save_black_box(), lines 230-235: np.concatenate or sf.write raises; the
\* handler prints and returns None.
SaveWriteRaises ==
    /\ main_pc = "save_write"
    /\ SaveReturns("write", NoPath)
    /\ main_pc' = "idle"
    /\ UNCHANGED <<engineVars, cap_pc, raw_data, a_pc, a_raw, in_restart, session,
                   histVars, ringVars, dspVars, stationVars, callVars, filepath, chunks, files>>

SaveStep ==
    \/ SaveBlackBox
    \/ SaveCopy
    \/ SaveWrite
    \/ SaveWriteRaises

\* One session of the engine, with the GUI saving the black box while it runs.
SaveNext ==
    \/ CaptureStep
    \/ \E t \in Threads : AnalysisStep(t)
    \/ Start
    \/ SaveStep

SaveSpec == Init /\ [][SaveNext]_vars

\* ------------------------------------------------------------------
\* SignalProcessor (src/dsp.py): noise profile and spectral gate (DspSpec)
\* ------------------------------------------------------------------

\* Magnitudes the calls are tried with: 0.0 and 12.0. Multiples of 12.0 keep
\* every mean, product and difference below exact in hundredths.
Levels == {0, 12 * Scale}

Bins == 1..NumBins

\* Magnitude frames of the processor's bin count, and of one bin fewer.
Spectra == [Bins -> Levels]
ShortSpectra == [1..(NumBins - 1) -> Levels]

RECURSIVE SeqsUpTo(_, _)
\* The sequences over S of length 1..n.
SeqsUpTo(S, n) ==
    IF n = 0 THEN {}
    ELSE {<<x>> : x \in S}
         \cup {Append(q, x) : q \in SeqsUpTo(S, n - 1), x \in S}

\* What capture_noise_profile() is tried with: well-formed buffers, the empty
\* buffer, a buffer of frames that all lack a bin, and a ragged buffer.
NoiseBuffers ==
    SeqsUpTo(Spectra, MaxNoiseFrames)
    \cup {<<>>}
    \cup {<<f>> : f \in ShortSpectra}
    \cup {<<f, g>> : f \in Spectra, g \in ShortSpectra}

\* The product of two fixed-point numbers.
Times(a, b) == (a * b) \div Scale

Max(a, b) == IF a > b THEN a ELSE b
Min(a, b) == IF a < b THEN a ELSE b

RECURSIVE Sum(_)
Sum(q) == IF q = <<>> THEN 0 ELSE Head(q) + Sum(Tail(q))

\* The largest multiple d * step, d in 0..most, with (base + d * step)^2 <= v.
RootDigit(v, base, step, most) ==
    CHOOSE d \in 0..most :
        /\ (base + d * step) * (base + d * step) <= v
        /\ d = most \/ (base + (d + 1) * step) * (base + (d + 1) * step) > v

\* np.sqrt, rounded down to a hundredth: the units, the tenths, then the
\* hundredths of the root.
Sqrt(v) ==
    LET units == Scale * RootDigit(v, 0, Scale, Scale - 1)
        tenths == units + (Scale \div 10) * RootDigit(v, units, Scale \div 10, 9)
    IN  tenths + RootDigit(v, tenths, 1, (Scale \div 10) - 1)

\* The values of bin b across the frames of a buffer.
Column(data, b) == [i \in 1..Len(data) |-> data[i][b]]

\* The mean of a sequence of values.
MeanOf(column) == Sum(column) \div Len(column)

\* The standard deviation of a sequence of values: the root of the mean
\* squared deviation from the mean.
StdOf(column) ==
    LET mean == MeanOf(column)
        squares == [i \in 1..Len(column) |->
                       (column[i] - mean) * (column[i] - mean)]
    IN  Sqrt(Sum(squares) \div Len(column))

\* np.mean(data, axis=0), line 69
Mean(data) == [b \in Bins |-> MeanOf(Column(data, b))]

\* np.std(data, axis=0), line 70
Std(data) == [b \in Bins |-> StdOf(Column(data, b))]

\* np.array(magnitude_buffer) is two-dimensional: a non-empty list of frames of
\* one length. A ragged list gives a one-dimensional array of objects, or
\* (numpy 1.24 and later) makes np.array raise ValueError.
Ragged(data) == \E i, j \in 1..Len(data) : Len(data[i]) # Len(data[j])
ShapeOk(data) ==
    /\ data # <<>>
    /\ ~Ragged(data)
    /\ Len(data[1]) = NumBins

\* A calibration that keeps the standard deviation as np.std returns it.
capture_noise_profile_NoEpsilon(buffer) ==
    /\ magnitude_buffer' = buffer
    /\ last_call' = "capture_noise_profile"
    /\ IF ShapeOk(buffer)
         THEN /\ noise_mean' = Mean(buffer)
              /\ noise_std' = Std(buffer)
              /\ is_calibrated' = TRUE
              /\ profile_outcome' = "returned"
              /\ UNCHANGED rejections
         ELSE /\ rejections < MaxRejections
              /\ rejections' = rejections + 1
              /\ UNCHANGED <<noise_mean, noise_std, is_calibrated>>
              /\ profile_outcome' \in
                    IF Ragged(buffer) THEN {"returned", "raised"} ELSE {"returned"}
    /\ magnitude_data' = <<>>
    /\ gated_magnitude' = <<>>
    /\ threshold' = 0
    /\ is_anomaly' = FALSE
    /\ UNCHANGED <<spectral_floor, oversubtraction>>

\* capture_noise_profile(), lines 57-74. The variables of the other calls'
\* arguments and results are cleared: they describe the last call only.
capture_noise_profile(buffer) ==
    /\ magnitude_buffer' = buffer
    /\ last_call' = "capture_noise_profile"
    /\ IF ShapeOk(buffer)
         THEN /\ noise_mean' = Mean(buffer)
              /\ noise_std' = LET std == Std(buffer)
                              IN  [b \in Bins |-> Max(std[b], StdEpsilon)]
              /\ is_calibrated' = TRUE
              /\ profile_outcome' = "returned"
              /\ UNCHANGED rejections
         ELSE /\ rejections < MaxRejections
              /\ rejections' = rejections + 1
              /\ UNCHANGED <<noise_mean, noise_std, is_calibrated>>
              /\ profile_outcome' \in
                    IF Ragged(buffer) THEN {"returned", "raised"} ELSE {"returned"}
    /\ magnitude_data' = <<>>
    /\ gated_magnitude' = <<>>
    /\ threshold' = 0
    /\ is_anomaly' = FALSE
    /\ UNCHANGED <<spectral_floor, oversubtraction>>

\* A call of capture_noise_profile() on a buffer of frames.
CaptureNoiseProfile(buffer) ==
    /\ capture_noise_profile(buffer)
    /\ UNCHANGED <<programVars, ringVars, saveVars, stationVars, callVars>>

\* A gate that mutes its input while there is no noise profile.
apply_spectral_gate_MuteUncalibrated(data) ==
    IF ~is_calibrated THEN [b \in Bins |-> 0]
    ELSE [b \in Bins |->
            Max(data[b] - Times(noise_mean[b], oversubtraction),
                Times(data[b], spectral_floor))]

\* A gate that clips at zero instead of keeping the floor.
apply_spectral_gate_NoFloor(data) ==
    IF ~is_calibrated THEN data
    ELSE [b \in Bins |->
            Max(data[b] - Times(noise_mean[b], oversubtraction), 0)]

\* A gate that subtracts the noise mean itself, whatever the factor.
apply_spectral_gate_NoFactor(data) ==
    IF ~is_calibrated THEN data
    ELSE [b \in Bins |->
            Max(data[b] - noise_mean[b], Times(data[b], spectral_floor))]

\* apply_spectral_gate(), lines 86-101.
apply_spectral_gate(data) ==
    IF ~is_calibrated THEN data
    ELSE [b \in Bins |->
            LET subtraction_amount == Times(noise_mean[b], oversubtraction)
                subtracted == data[b] - subtraction_amount
                floor == Times(data[b], spectral_floor)
            IN  Max(subtracted, floor)]

\* A call of apply_spectral_gate() on a magnitude frame.
ApplySpectralGate(data) ==
    /\ magnitude_data' = data
    /\ gated_magnitude' = apply_spectral_gate(data)
    /\ last_call' = "apply_spectral_gate"
    /\ magnitude_buffer' = <<>>
    /\ profile_outcome' = "none"
    /\ threshold' = 0
    /\ is_anomaly' = FALSE
    /\ UNCHANGED <<noise_mean, noise_std, is_calibrated, spectral_floor,
                   oversubtraction, rejections>>
    /\ UNCHANGED <<programVars, ringVars, saveVars, stationVars, callVars>>

\* A call of apply_spectral_gate() on the frame the last call returned.
GateAgain ==
    /\ last_call \in {"apply_spectral_gate", "gate_again"}
    /\ magnitude_data' = gated_magnitude
    /\ gated_magnitude' = apply_spectral_gate(gated_magnitude)
    /\ last_call' = "gate_again"
    /\ UNCHANGED <<noise_mean, noise_std, is_calibrated, spectral_floor,
                   oversubtraction, magnitude_buffer, profile_outcome,
                   threshold, is_anomaly, rejections>>
    /\ UNCHANGED <<programVars, ringVars, saveVars, stationVars, callVars>>

\* Settings of the two tuning parameters: fractions for the floor, factors for
\* the oversubtraction, the defaults among them.
Floors == {DefaultSpectralFloor, 5 * DefaultSpectralFloor}
Factors == {0, Scale, DefaultOversubtraction}

\* The tuning attributes of lines 54-55 are assigned new values.
Tune(floor, factor) ==
    /\ spectral_floor' = floor
    /\ oversubtraction' = factor
    /\ last_call' = "tune"
    /\ magnitude_buffer' = <<>>
    /\ profile_outcome' = "none"
    /\ magnitude_data' = <<>>
    /\ gated_magnitude' = <<>>
    /\ threshold' = 0
    /\ is_anomaly' = FALSE
    /\ UNCHANGED <<noise_mean, noise_std, is_calibrated, rejections>>
    /\ UNCHANGED <<programVars, ringVars, saveVars, stationVars, callVars>>

\* A z-score is kept as the fraction <<numerator, denominator>> with a
\* positive denominator, so that no comparison is lost to rounding.
Exceeds(p, q) == p[1] * q[2] > q[1] * p[2]

\* np.max over the bins of a vector of fractions.
MaxOf(z_scores) ==
    LET b == CHOOSE b \in Bins : \A c \in Bins : ~Exceeds(z_scores[c], z_scores[b])
    IN  z_scores[b]

\* A detector that also fires on a maximum equal to the threshold.
detect_anomaly_AtThreshold(data, t) ==
    IF ~is_calibrated THEN FALSE
    ELSE LET z_scores == [b \in Bins |-> <<data[b] - noise_mean[b], noise_std[b]>>]
         IN  ~Exceeds(<<t, Scale>>, MaxOf(z_scores))

\* A detector that uses the noise arrays whether calibrated or not.
detect_anomaly_NoCalibrationTest(data, t) ==
    LET z_scores == [b \in Bins |-> <<data[b] - noise_mean[b], noise_std[b]>>]
    IN  Exceeds(MaxOf(z_scores), <<t, Scale>>)

\* detect_anomaly(), lines 114-123.
detect_anomaly(data, t) ==
    IF ~is_calibrated THEN FALSE
    ELSE LET z_scores == [b \in Bins |-> <<data[b] - noise_mean[b], noise_std[b]>>]
             max_z == MaxOf(z_scores)
         IN  Exceeds(max_z, <<t, Scale>>)

\* Thresholds the detector is tried with: 1.0, the default 3.0 of line 103,
\* and the 10.0 the window starts with.
Thresholds == {Scale, 3 * Scale, 10 * Scale}

\* A call of detect_anomaly() on a magnitude frame.
DetectAnomaly(data, t) ==
    /\ magnitude_data' = data
    /\ threshold' = t
    /\ is_anomaly' = detect_anomaly(data, t)
    /\ last_call' = "detect_anomaly"
    /\ gated_magnitude' = <<>>
    /\ magnitude_buffer' = <<>>
    /\ profile_outcome' = "none"
    /\ UNCHANGED <<noise_mean, noise_std, is_calibrated, spectral_floor,
                   oversubtraction, rejections>>
    /\ UNCHANGED <<programVars, ringVars, saveVars, stationVars, callVars>>

DspNext ==
    \/ \E buffer \in NoiseBuffers : CaptureNoiseProfile(buffer)
    \/ \E data \in Spectra : ApplySpectralGate(data)
    \/ GateAgain
    \/ \E floor \in Floors, factor \in Factors : Tune(floor, factor)
    \/ \E data \in Spectra, t \in Thresholds : DetectAnomaly(data, t)

DspSpec == Init /\ [][DspNext]_vars

\* ------------------------------------------------------------------
\* Step B of the capture loop: pass-through or resampling (ForwardSpec)
\* ------------------------------------------------------------------

\* Device sample rates tried for the input and the output.
Rates == {44100, DefaultInputRate, 96000}

\* Channel counts tried.
ChannelCounts == {1, 2}

\* Sample values tried: the ends and the middle of the int16 range.
SampleValues == {-32768, 0, 32767}

\* tobytes() of an int16 array: two bytes per sample, low byte first.
ToBytes(samples) ==
    [k \in 1..(2 * Len(samples)) |->
        LET u == (samples[(k + 1) \div 2] + 65536) % 65536
        IN  IF k % 2 = 1 THEN u % 256 ELSE u \div 256]

\* np.frombuffer(raw_data, dtype=np.int16), line 131
FromBuffer(bytes) ==
    [k \in 1..(Len(bytes) \div 2) |->
        LET u == bytes[2 * k - 1] + 256 * bytes[2 * k]
        IN  IF u >= 32768 THEN u - 65536 ELSE u]

\* int(n * self.resample_ratio), lines 135 and 144
ScaledLength(n) == (n * resample_ratio[1]) \div resample_ratio[2]

\* A length two samples longer than lines 135 and 144 compute.
NumOutputFrames_Padded(n) == ScaledLength(n) + 2

\* num_output_frames (line 144) and, for one channel, output_len (line 135)
NumOutputFrames(n) == ScaledLength(n)

\* np.interp(x_new, x_old, y) at index j of x_new = np.linspace(0, n - 1, m),
\* with x_old = 0, 1, ..., n - 1: the value as a fraction <<numerator, m - 1>>
\* (or over 1 when m = 1).
Interp(j, m, y) ==
    LET n == Len(y)
        den == IF m > 1 THEN m - 1 ELSE 1
        pos == (j - 1) * (n - 1)
        i == pos \div den
        rest == pos - i * den
    IN  IF rest = 0 THEN <<y[i + 1] * den, den>>
        ELSE <<y[i + 1] * den + (y[i + 2] - y[i + 1]) * rest, den>>

\* np.clip(x, -32768, 32767), line 165
Clip(x) ==
    IF x[1] < -32768 * x[2] THEN <<-32768 * x[2], x[2]>>
    ELSE IF x[1] > 32767 * x[2] THEN <<32767 * x[2], x[2]>>
    ELSE x

\* The integer part of a fraction, towards zero.
Truncated(x) == IF x[1] >= 0 THEN x[1] \div x[2] ELSE -((-x[1]) \div x[2])

\* astype(np.int16), line 166: the integer part, kept to 16 bits.
AsInt16(x) == ((Truncated(x) + 32768) % 65536) - 32768

\* Channel ch of an interleaved chunk: column ch of reshape(num_frames, channels).
Channel(chunk, ch) ==
    [f \in 1..(Len(chunk) \div channels) |-> chunk[(f - 1) * channels + ch]]

\* Lines 131-165: the interleaved, clipped output of the interpolation, every
\* channel resampled to NumOutputFrames samples.
Resampled(bytes) ==
    LET audio_chunk_int16 == FromBuffer(bytes)
        num_frames == Len(audio_chunk_int16) \div channels
        num_output_frames == NumOutputFrames(num_frames)
    IN  [k \in 1..(num_output_frames * channels) |->
            LET j == (k - 1) \div channels + 1
                ch == ((k - 1) % channels) + 1
            IN  Clip(Interp(j, num_output_frames, Channel(audio_chunk_int16, ch)))]

\* Step B that resamples whatever the ratio is, and one frame short.
WriteFrame_AlwaysResampled ==
    /\ forward_pc = "read"
    /\ output_data_float' = Resampled(SubSeq(raw_bytes, 1, Len(raw_bytes) - 2 * channels))
    /\ written_bytes' = ToBytes([k \in 1..Len(output_data_float') |->
                                      AsInt16(output_data_float'[k])])
    /\ forward_pc' = "written"
    /\ UNCHANGED <<resample_ratio, channels, raw_bytes, saved>>
    /\ UNCHANGED <<programVars, ringVars, saveVars, dspVars, stationVars>>

\* Step B of the capture loop, lines 126-168, on the frame just read.
WriteFrame ==
    /\ forward_pc = "read"
    /\ IF resample_ratio[1] = resample_ratio[2]
         THEN /\ written_bytes' = raw_bytes
              /\ UNCHANGED output_data_float
         ELSE /\ output_data_float' = Resampled(raw_bytes)
              /\ written_bytes' = ToBytes([k \in 1..Len(output_data_float') |->
                                                AsInt16(output_data_float'[k])])
    /\ forward_pc' = "written"
    /\ UNCHANGED <<resample_ratio, channels, raw_bytes, saved>>
    /\ UNCHANGED <<programVars, ringVars, saveVars, dspVars, stationVars>>

\* A frame of ChunkRows samples per channel has been read, on some device
\* pair and channel count.
ForwardInit ==
    /\ InitProgram
    /\ resample_ratio \in Rates \X Rates
    /\ channels \in ChannelCounts
    /\ raw_bytes \in {ToBytes(samples) :
                         samples \in UNION {[1..(ChunkRows * c) -> SampleValues] :
                                               c \in ChannelCounts}}
    /\ Len(raw_bytes) = 2 * ChunkRows * channels
    /\ output_data_float = <<>>
    /\ written_bytes = <<>>
    /\ forward_pc = "read"

ForwardNext == WriteFrame

ForwardSpec == ForwardInit /\ [][ForwardNext]_vars

\* ------------------------------------------------------------------
\* The profile database (src/database.py)
\* ------------------------------------------------------------------

\* _adapt_array(), lines 35-40: the .npy serialisation of an array
_adapt_array(arr) == Bytes(arr.ndim, arr.value)

\* _convert_array(), lines 42-46: the array a .npy serialisation holds
_convert_array(text) == NdArray(text.ndim, text.value)

\* The declared type of column data (line 18) and the type names a converter
\* is registered for (line 50).
DeclaredType == "BLOB"
Converters == {"array"}

\* What sqlite3 hands back for column data under PARSE_DECLTYPES where every
\* column goes through the converter, whatever its declared type.
FromColumn_AlwaysConverted(blob) == _convert_array(blob)

\* What sqlite3 hands back for column data under PARSE_DECLTYPES: the
\* converter registered for the column's declared type is applied, and a
\* column with no such converter comes back as stored.
FromColumn(blob) ==
    IF DeclaredType \in Converters THEN _convert_array(blob) ELSE blob

\* The rows of a table other than the one of the given name.
RowsExcept(rows, name) ==
    LET Other(row) == row.name # name
    IN  SelectSeq(rows, Other)

\* save_profile_to_db(), lines 52-58: REPLACE INTO deletes the row that holds
\* the primary key, if any, and inserts the new row.
save_profile_to_db(rows, name, profile_type, data) ==
    Append(RowsExcept(rows, name),
           [name |-> name, type |-> profile_type, data |-> _adapt_array(data)])

\* load_profiles_from_db(), lines 60-75: the dict of name -> data, as its
\* items in the order the rows come.
load_profiles_from_db(rows) ==
    [i \in 1..Len(rows) |-> [name |-> rows[i].name, data |-> FromColumn(rows[i].data)]]

\* delete_profile_from_db(), lines 77-83
delete_profile_from_db(rows, name) == RowsExcept(rows, name)

\* Arrays the database functions are called with: two 1-D magnitude vectors
\* and a 2-D tile (frames x bins), each with the type string its caller gives.
DbArguments ==
    {<<"1D", NdArray(1, <<0, 12 * Scale>>)>>,
     <<"1D", NdArray(1, <<12 * Scale, 0>>)>>,
     <<"2D", NdArray(2, << <<0, 12 * Scale>>, <<12 * Scale, 0>> >>)>>}

\* What a database call leaves alone in the window and in the engine's loop.
windowVars == <<signal_detected_cooldown, latest_magnitude, detection_threshold,
                auto_profiling_enabled, profiling_buffer, identified, forwardVars>>

\* A call of save_profile_to_db(name, profile_type, data).
SaveProfileToDb(name, profile_type, data) ==
    /\ db_profiles' = save_profile_to_db(db_profiles, name, profile_type, data)
    /\ saved' = [saved EXCEPT ![name] = data]
    /\ UNCHANGED <<profiles, windowVars, programVars, ringVars, saveVars, dspVars>>

\* load_profiles(), main.py lines 1381-1385: self.profiles becomes what
\* load_profiles_from_db() returns.
LoadProfiles ==
    /\ profiles' = load_profiles_from_db(db_profiles)
    /\ UNCHANGED <<db_profiles, saved, windowVars, programVars, ringVars,
                   saveVars, dspVars>>

\* A call of delete_profile_from_db(name).
DeleteProfileFromDb(name) ==
    /\ db_profiles' = delete_profile_from_db(db_profiles, name)
    /\ saved' = [saved EXCEPT ![name] = NoArray]
    /\ UNCHANGED <<profiles, windowVars, programVars, ringVars, saveVars, dspVars>>

DbNext ==
    \/ \E name \in ProfileNames, arg \in DbArguments :
          SaveProfileToDb(name, arg[1], arg[2])
    \/ LoadProfiles
    \/ \E name \in ProfileNames : DeleteProfileFromDb(name)

DbSpec == Init /\ [][DbNext]_vars

\* ------------------------------------------------------------------
\* ScienceStation: spectrum, profiles and identification (StationSpec)
\* ------------------------------------------------------------------

\* The names listed in profile_list_widget.
ProfileKeys == {profiles[i].name : i \in 1..Len(profiles)}

\* A noise-like frame with one bin raised by ten noise standard deviations.
ImpulseFrame(b) ==
    [c \in Bins |-> noise_mean[c] + (IF c = b THEN 10 * noise_std[b] ELSE 0)]

\* update_data_stream(), lines 1555-1563: a new magnitude frame becomes the
\* latest one and, with auto-profiling on, joins the profiling buffer, which
\* calibrates the processor each time it is full.
UpdateLatestMagnitude(frame) ==
    /\ latest_magnitude' = frame
    /\ identified' = NotIdentified
    /\ IF auto_profiling_enabled
         THEN /\ profiling_buffer' = RingAppend(profiling_buffer, frame, ProfilingMaxlen)
              /\ IF Len(profiling_buffer') = ProfilingMaxlen
                   THEN capture_noise_profile(profiling_buffer')
                   ELSE UNCHANGED dspVars
         ELSE UNCHANGED <<profiling_buffer, dspVars>>
    /\ UNCHANGED <<signal_detected_cooldown, detection_threshold,
                   auto_profiling_enabled, profiles, db_profiles>>
    /\ UNCHANGED <<programVars, ringVars, saveVars, callVars>>

\* A frame arrives that is the noise mean plus an impulse in one bin.
UpdateLatestImpulse(b) ==
    /\ is_calibrated
    /\ ~auto_profiling_enabled
    /\ UpdateLatestMagnitude(ImpulseFrame(b))

\* A toggle that resets the processor's calibration when it switches off.
ToggleAutoProfiling_ResetsCalibration ==
    /\ auto_profiling_enabled' = ~auto_profiling_enabled
    /\ is_calibrated' = (is_calibrated /\ auto_profiling_enabled')
    /\ identified' = NotIdentified
    /\ UNCHANGED <<signal_detected_cooldown, latest_magnitude, detection_threshold,
                   profiling_buffer, profiles, db_profiles>>
    /\ UNCHANGED <<noise_mean, noise_std, spectral_floor, oversubtraction,
                   magnitude_buffer, profile_outcome, magnitude_data, gated_magnitude,
                   last_call, threshold, is_anomaly, rejections>>
    /\ UNCHANGED <<programVars, ringVars, saveVars, callVars>>

\* toggle_auto_profiling(), lines 1669-1676
ToggleAutoProfiling ==
    /\ auto_profiling_enabled' = ~auto_profiling_enabled
    /\ identified' = NotIdentified
    /\ UNCHANGED <<signal_detected_cooldown, latest_magnitude, detection_threshold,
                   profiling_buffer, profiles, db_profiles>>
    /\ UNCHANGED <<programVars, ringVars, saveVars, dspVars, callVars>>

\* Values slider_threshold / 2.0 is tried with: 3.0 and the initial 10.0.
DetectionThresholds == {3 * Scale, 10 * Scale}

\* update_labels(), line 1700
UpdateLabels(t) ==
    /\ detection_threshold # t
    /\ detection_threshold' = t
    /\ identified' = NotIdentified
    /\ UNCHANGED <<signal_detected_cooldown, latest_magnitude,
                   auto_profiling_enabled, profiling_buffer, profiles, db_profiles>>
    /\ UNCHANGED <<programVars, ringVars, saveVars, dspVars, callVars>>

\* save_current_profile(), lines 1362-1379, for a non-empty name: the gated
\* latest frame is saved as a 1D profile and the profiles are loaded again.
SaveCurrentProfile(profile_name) ==
    LET profile_to_save == NdArray(1, apply_spectral_gate(latest_magnitude))
    IN  /\ db_profiles' = save_profile_to_db(db_profiles, profile_name, "1D",
                                             profile_to_save)
        /\ saved' = [saved EXCEPT ![profile_name] = profile_to_save]
        /\ profiles' = load_profiles_from_db(db_profiles')
        /\ identified' = NotIdentified
        /\ UNCHANGED <<signal_detected_cooldown, latest_magnitude,
                       detection_threshold, auto_profiling_enabled, profiling_buffer>>
        /\ UNCHANGED <<programVars, ringVars, saveVars, dspVars, forwardVars>>

\* The lab window's save_selection_as_profile(), lines 149-176, for a
\* non-empty name and selection, opened from the station: the region is saved
\* as a 2D profile and the station loads its profiles again.
SaveSelectionAsProfile(name, selected_data) ==
    /\ db_profiles' = save_profile_to_db(db_profiles, name, "2D",
                                         NdArray(2, selected_data))
    /\ saved' = [saved EXCEPT ![name] = NdArray(2, selected_data)]
    /\ profiles' = load_profiles_from_db(db_profiles')
    /\ identified' = NotIdentified
    /\ UNCHANGED <<signal_detected_cooldown, latest_magnitude,
                   detection_threshold, auto_profiling_enabled, profiling_buffer>>
    /\ UNCHANGED <<programVars, ringVars, saveVars, dspVars, forwardVars>>

\* delete_selected_profile(), lines 1387-1399, with a profile selected
DeleteSelectedProfile(profile_name) ==
    /\ profile_name \in ProfileKeys
    /\ db_profiles' = delete_profile_from_db(db_profiles, profile_name)
    /\ saved' = [saved EXCEPT ![profile_name] = NoArray]
    /\ profiles' = load_profiles_from_db(db_profiles')
    /\ identified' = NotIdentified
    /\ UNCHANGED <<signal_detected_cooldown, latest_magnitude,
                   detection_threshold, auto_profiling_enabled, profiling_buffer>>
    /\ UNCHANGED <<programVars, ringVars, saveVars, dspVars, forwardVars>>

\* np.argmax: the first bin that holds the largest value.
ArgMax(v) ==
    CHOOSE b \in Bins :
        /\ \A c \in Bins : v[c] <= v[b]
        /\ \A c \in Bins : c < b => v[c] < v[b]

\* Line 1596: the bin reported with a detection.
AnomalyBin(gated) == ArgMax(gated)

\* np.linalg.norm of a vector
Norm(v) == Sqrt(Sum([b \in 1..Len(v) |-> v[b] * v[b]]))

\* np.dot of two vectors of one length
Dot(u, v) == Sum([b \in 1..Len(u) |-> Times(u[b], v[b])])

\* self.identification_threshold, line 283
IdentificationThreshold == 85

\* Positions of slider_zoom tried (its range is 5..100, line 1032).
ZoomValues == {50, 100}

\* The least cutoff of lines 668, 715 and 1618 (50 bins of 2049), scaled.
MinCutoff == 1

\* Lines 1617-1618: max(50, int(self.MAX_BINS * zoom_percent))
CutoffIndex(zoom) == Max(MinCutoff, (NumBins * zoom) \div 100)

\* Contents of self.full_spectrogram_data tried: history_length rows of
\* MAX_BINS values, all zero as at line 272 or filled by render_view().
SpectrogramData ==
    {[r \in 1..HistoryLength |-> [b \in Bins |-> 0]],
     [r \in 1..HistoryLength |-> [b \in Bins |-> b * Scale]]}

\* Regions the lab window's ROI can hold: narrower than the bins, as wide as
\* the bins, and longer than the live history.
Selections ==
    {<< <<Scale>> >>,
     << <<Scale, 2 * Scale>> >>,
     [r \in 1..(HistoryLength + 1) |-> [b \in Bins |-> b * Scale]]}

\* The values of a two-dimensional array, row after row.
Flatten(tile) ==
    [k \in 1..(Len(tile) * Len(tile[1])) |->
        tile[((k - 1) \div Len(tile[1])) + 1][((k - 1) % Len(tile[1])) + 1]]

\* self.full_spectrogram_data[:prof_h, :prof_w], line 1633
LiveSlice(data, prof_h, prof_w) ==
    [r \in 1..Min(prof_h, Len(data)) |->
        [c \in 1..Min(prof_w, Len(data[1])) |-> data[r][c]]]

RECURSIVE Scan(_, _, _, _, _, _)
\* The loop of lines 1620-1641 over the remaining items of self.profiles.
\* Reading .ndim of a value that is not an array raises AttributeError.
Scan(items, gated, cutoff_index, full_spectrogram_data, best_match, highest_score) ==
    IF items = <<>>
    THEN [raised |-> FALSE, best_match |-> best_match, highest_score |-> highest_score]
    ELSE LET name == Head(items).name
             profile_data == Head(items).data
             live_norm_val == Norm(gated)
             live_signal_norm == [b \in Bins |-> (gated[b] * Scale) \div live_norm_val]
             score == Dot(live_signal_norm, profile_data.value)
             prof_h == Len(profile_data.value)
             prof_w == Len(profile_data.value[1])
             live_slice == LiveSlice(full_spectrogram_data, prof_h, prof_w)
             same_shape == Len(live_slice) = prof_h /\ Len(live_slice[1]) = prof_w
             live_norm == Norm(Flatten(live_slice))
             profile_norm == Norm(Flatten(profile_data.value))
             products == [k \in 1..(prof_h * prof_w) |->
                             Flatten(live_slice)[k] * Flatten(profile_data.value)[k]]
             score_2d == (Sum(products) * Scale) \div (live_norm * profile_norm)
             next == Scan(Tail(items), gated, cutoff_index, full_spectrogram_data,
                          best_match, highest_score)
         IN  IF profile_data.pytype # "ndarray"
             THEN [raised |-> TRUE, best_match |-> best_match,
                   highest_score |-> highest_score]
             ELSE IF profile_data.ndim = 1
             THEN IF live_norm_val > 0 /\ score > highest_score
                  THEN Scan(Tail(items), gated, cutoff_index, full_spectrogram_data,
                            name, score)
                  ELSE next
             ELSE IF profile_data.ndim = 2
             THEN IF prof_w # cutoff_index THEN next
                  ELSE IF ~same_shape THEN next
                  ELSE IF live_norm > 0 /\ profile_norm > 0 /\ score_2d > highest_score
                       THEN Scan(Tail(items), gated, cutoff_index,
                                 full_spectrogram_data, name, score_2d)
                       ELSE next
             ELSE next

\* An identification tick that announces every anomaly it sees.
RunIdentification_NoCooldown(zoom, full_spectrogram_data) ==
    LET anomaly == detect_anomaly(latest_magnitude, detection_threshold)
        gated == apply_spectral_gate(latest_magnitude)
        reports == TRUE
        scan == Scan(profiles, gated, CutoffIndex(zoom), full_spectrogram_data,
                     "---", 0)
    IN  IF anomaly
        THEN /\ signal_detected_cooldown' =
                    IF reports THEN CooldownTicks ELSE signal_detected_cooldown
             /\ identified' =
                    [outcome |-> IF scan.raised THEN "raised" ELSE "returned",
                     is_anomaly |-> TRUE,
                     gated_magnitude |-> gated,
                     anomaly_bin |-> IF reports THEN AnomalyBin(gated) ELSE 0,
                     best_match |-> scan.best_match,
                     highest_score |-> scan.highest_score,
                     lbl_identity |->
                         IF scan.raised THEN "---"
                         ELSE IF scan.highest_score > IdentificationThreshold
                              THEN scan.best_match ELSE "UNKNOWN SIGNAL"]
             /\ UNCHANGED <<latest_magnitude, detection_threshold,
                            auto_profiling_enabled, profiling_buffer, profiles,
                            db_profiles>>
             /\ UNCHANGED <<programVars, ringVars, saveVars, dspVars, callVars>>
        ELSE /\ signal_detected_cooldown' =
                    IF signal_detected_cooldown > 0
                    THEN signal_detected_cooldown - 1 ELSE signal_detected_cooldown
             /\ identified' =
                    [outcome |-> "returned", is_anomaly |-> FALSE,
                     gated_magnitude |-> gated, anomaly_bin |-> 0,
                     best_match |-> "---", highest_score |-> 0,
                     lbl_identity |-> "---"]
             /\ UNCHANGED <<latest_magnitude, detection_threshold,
                            auto_profiling_enabled, profiling_buffer, profiles,
                            db_profiles>>
             /\ UNCHANGED <<programVars, ringVars, saveVars, dspVars, callVars>>

\* run_identification(), lines 1583-1660, once the window is set up.
RunIdentification(zoom, full_spectrogram_data) ==
    LET anomaly == detect_anomaly(latest_magnitude, detection_threshold)
        gated == apply_spectral_gate(latest_magnitude)
        reports == signal_detected_cooldown <= 0
        scan == Scan(profiles, gated, CutoffIndex(zoom), full_spectrogram_data,
                     "---", 0)
    IN  IF anomaly
        THEN /\ signal_detected_cooldown' =
                    IF reports THEN CooldownTicks ELSE signal_detected_cooldown
             /\ identified' =
                    [outcome |-> IF scan.raised THEN "raised" ELSE "returned",
                     is_anomaly |-> TRUE,
                     gated_magnitude |-> gated,
                     anomaly_bin |-> IF reports THEN AnomalyBin(gated) ELSE 0,
                     best_match |-> scan.best_match,
                     highest_score |-> scan.highest_score,
                     lbl_identity |->
                         IF scan.raised THEN "---"
                         ELSE IF scan.highest_score > IdentificationThreshold
                              THEN scan.best_match ELSE "UNKNOWN SIGNAL"]
             /\ UNCHANGED <<latest_magnitude, detection_threshold,
                            auto_profiling_enabled, profiling_buffer, profiles,
                            db_profiles>>
             /\ UNCHANGED <<programVars, ringVars, saveVars, dspVars, callVars>>
        ELSE /\ signal_detected_cooldown' =
                    IF signal_detected_cooldown > 0
                    THEN signal_detected_cooldown - 1 ELSE signal_detected_cooldown
             /\ identified' =
                    [outcome |-> "returned", is_anomaly |-> FALSE,
                     gated_magnitude |-> gated, anomaly_bin |-> 0,
                     best_match |-> "---", highest_score |-> 0,
                     lbl_identity |-> "---"]
             /\ UNCHANGED <<latest_magnitude, detection_threshold,
                            auto_profiling_enabled, profiling_buffer, profiles,
                            db_profiles>>
             /\ UNCHANGED <<programVars, ringVars, saveVars, dspVars, callVars>>

StationNext ==
    \/ \E frame \in Spectra : UpdateLatestMagnitude(frame)
    \/ \E b \in Bins : UpdateLatestImpulse(b)
    \/ ToggleAutoProfiling
    \/ \E t \in DetectionThresholds : UpdateLabels(t)
    \/ \E name \in ProfileNames : SaveCurrentProfile(name)
    \/ \E name \in ProfileNames : DeleteSelectedProfile(name)
    \/ \E zoom \in ZoomValues, data \in SpectrogramData : RunIdentification(zoom, data)

StationSpec == Init /\ [][StationNext]_vars

\* The window's periodic work alone: frames arrive, the identification timer
\* ticks, the operator moves the threshold and switches auto-profiling; no
\* template is saved or deleted.
MonitorNext ==
    \/ \E frame \in Spectra : UpdateLatestMagnitude(frame)
    \/ \E b \in Bins : UpdateLatestImpulse(b)
    \/ ToggleAutoProfiling
    \/ \E t \in DetectionThresholds : UpdateLabels(t)
    \/ \E zoom \in ZoomValues, data \in SpectrogramData : RunIdentification(zoom, data)

MonitorSpec == Init /\ [][MonitorNext]_vars

\* The monitoring window with templates cut out in the lab window.
TemplateNext ==
    \/ MonitorNext
    \/ \E name \in ProfileNames, selected_data \in Selections :
          SaveSelectionAsProfile(name, selected_data)

TemplateSpec == Init /\ [][TemplateNext]_vars

\* ------------------------------------------------------------------
\* Properties
\* ------------------------------------------------------------------

Increasing(q) == \A i, j \in 1..Len(q) : i < j => q[i] < q[j]

\* Frames the capture loop has read and is about to hand to the output device.
AwaitingWrite == IF cap_pc = "write" THEN {raw_data} ELSE {}

\* Frames some analysis thread has dequeued and not yet processed.
Held == {a_raw[t] : t \in {u \in Threads : a_pc[u] = "process"}}

\* What the enqueue attempt and everything after it may hold: written frames only.
WrittenBeforeOffload ==
    /\ cap_pc \in {"offload", "put"} => raw_data \in Range(written)
    /\ Range(analysis_queue) \subseteq Range(written)
    /\ dropped \subseteq Range(written)

\* C1 (as stated): every frame read from the input device is written to the
\* output device exactly once and in read order, the write comes before the
\* enqueue attempt, and a full analysis queue drops only the analysis copy.
C1_EveryReadFrameWritten ==
    /\ Increasing(written)
    /\ Range(written) = (1..nread) \ AwaitingWrite
    /\ WrittenBeforeOffload

\* C1 (amended): every frame read from the input device is handed to the output
\* write exactly once, in read order and before the enqueue attempt; it is
\* missing from the output only when that write (or the resampling before it)
\* itself raised, never because the analysis queue was full.
C1_ReadFramesWrittenUnlessWriteRaised ==
    /\ Increasing(written)
    /\ Range(written) = (1..nread) \ (AwaitingWrite \cup write_failed)
    /\ WrittenBeforeOffload

\* C1 witness: a frame was dropped for analysis by a full queue, was written to
\* the output all the same, and the loop has gone on.
C1_DroppedFrameWasWritten ==
    /\ cap_pc = "loop"
    /\ \E f \in dropped : f \in Range(written)

\* C2: the capture loop never waits on the analysis queue. Outside the device
\* read and the device write it can always take its next step, whatever the
\* analysis threads are doing and however full the queue is; in particular the
\* blocking put of line 172 is only reached with room in the queue.
C2_CaptureNeverWaitsOnQueue ==
    /\ cap_pc = "put" => ~QueueFull
    /\ (isRunning /\ cap_pc \notin {"read", "write"}) => ENABLED CaptureStep

\* C2 witness: the queue is full, a frame has been dropped for it, and the
\* capture loop is at its next device read.
C2_FullQueueLoopAtRead ==
    /\ QueueFull
    /\ dropped # {}
    /\ cap_pc = "read"

\* C3: the frames emitted to the observer are a subsequence of the frames
\* read: in capture order, none twice, restarts of the engine included.
C3_EmittedInCaptureOrder ==
    /\ Increasing(emitted)
    /\ Range(emitted) \subseteq 1..nread

\* C4: shutdown is a join. On the way down from a running session the handles
\* are released only once the capture loop and every analysis loop have
\* exited, and when stop() returns no loop is still running.
C4_ShutdownIsJoin ==
    [][/\ (cap_pc = "cleanup" /\ ~failed /\ cap_pc' = "finished")
            => \A t \in Threads : ~Alive(t)
       /\ (main_pc = "stop_join" /\ main_pc' # "stop_join")
            => (~isRunning /\ \A t \in Threads : ~Alive(t))]_vars

StopPending == main_pc \in {"stop_wait", "stop_join"}

\* C5: cancellation always completes. Once stop() has been entered on a started
\* engine, under fair scheduling the capture loop and the analysis loop exit
\* and stop() returns, whatever the interleaving with start()/run().
C5_StopCompletes == StopPending ~> ~StopPending

\* C6: a failure while starting takes the engine straight to stopped: the error
\* is reported, the handles that were opened are released, and no loop of the
\* engine goes on running (each analysis loop has exited or has been told to).
C6_FailedStartLeavesNothingRunning ==
    (failed /\ cap_pc = "finished") =>
        /\ error_occurred > 0
        /\ \A h \in {"p", "input_stream", "output_stream"} : dev[h] # "open"
        /\ \A t \in Threads : Alive(t) => ~running

CaptureHandlerReturns == cap_pc = "except" /\ cap_pc' # "except"

\* C7: a read or write error in the running capture loop is fatal: the loop
\* stops retrying, the engine goes to cleanup, and the failure is reported.
C7_CaptureFaultIsFatal ==
    [][CaptureHandlerReturns =>
          /\ cap_pc' = "cleanup"
          /\ error_occurred' > error_occurred]_vars

\* Tracked frames that have been handed to the analysis side.
Enqueued == Range(analysis_queue) \cup Held \cup Range(emitted)

\* C8: a read or write that raises skips exactly that iteration: nothing of the
\* failed iteration is enqueued, the stop flag and the queue are as they were,
\* and the capture loop continues with its next iteration.
C8_StreamFaultSkipsIteration ==
    /\ [](write_failed \cap Enqueued = {})
    /\ [][/\ (cap_pc \in {"read", "write"} /\ cap_pc' = "except")
               => (running' = running /\ analysis_queue' = analysis_queue)
          /\ CaptureHandlerReturns
               => (cap_pc' = "loop" /\ running' = running
                   /\ analysis_queue' = analysis_queue)]_vars

\* C8 witness: after an iteration whose write raised, a later iteration has
\* reached the put.
C8_LaterIterationAfterFault ==
    /\ write_failed # {}
    /\ cap_pc = "put"
    /\ raw_data \notin write_failed

\* C9: degradation is reported to the observer: when the capture loop handles a
\* repeated stream fault, or an analysis loop handles an error, an
\* error_occurred event is emitted.
C9_DegradationReported ==
    [][(\/ CaptureHandlerReturns /\ Cardinality(write_failed) >= 2
        \/ \E t \in Threads : a_pc[t] = "except" /\ a_pc'[t] # "except")
          => error_occurred' > error_occurred]_vars

\* C10: a failure while processing one dequeued frame costs only that cycle:
\* the analysis loop goes back to its loop head and stays alive, and the stop
\* flag, the queue, the capture loop and the other analysis threads are left
\* as they were.
C10_AnalysisFailureIsolated ==
    [][\A t \in Threads :
          ((a_pc[t] = "process" /\ a_pc'[t] = "except")
             \/ (a_pc[t] = "except" /\ a_pc'[t] # "except"))
          => /\ a_pc'[t] \in {"except", "loop"}
             /\ \A u \in Threads \ {t} : a_pc'[u] = a_pc[u]
             /\ UNCHANGED <<running, analysis_queue, cap_pc, raw_data, emitted,
                            written>>]_vars

\* Frames an analysis thread dequeued and lost to an exception.
LostInAnalysis ==
    {f \in Range(written) :
        /\ f \notin dropped
        /\ f \notin Enqueued
        /\ ~(cap_pc \in {"offload", "put"} /\ raw_data = f)}

\* C10 witness: the only analysis thread lost a frame to an exception and has
\* emitted a later frame.
C10_LaterFrameEmittedAfterFailure ==
    /\ session = 1
    /\ \E f \in LostInAnalysis : \E g \in Range(emitted) : g > f

\* The capture loop of the current session is executing: its streams are open
\* and run() has not reached the finally clause.
CaptureLoopRunning == cap_pc \in {"loop", "read", "write", "offload", "put", "except"}

\* C11: frame size is not a live parameter. Every capture read asks the input
\* stream for the number of frames the stream was opened with, and the frame
\* size seen by a capture loop does not change while that loop is executing:
\* a latency switch reaches the loops only through a full stop and start.
C11_FrameSizeFixedInSession ==
    [][/\ (cap_pc = "read" /\ cap_pc' = "write")
            => buffer_size = dev.frames_per_buffer
       /\ (CaptureLoopRunning /\ CaptureLoopRunning')
            => buffer_size' = buffer_size]_vars


\* The last k elements of s.
LastN(s, k) == SubSeq(s, Len(s) - k + 1, Len(s))

CeilDiv(a, b) == (a + b - 1) \div b

\* Frames that span the given number of seconds at the engine's frame size.
DurationCapacity(seconds, rate) == CeilDiv(seconds * rate, buffer_size)

\* C12: each ring buffer retains the most recent frames up to the capacity
\* ceil(duration_seconds * sample_rate / frame_size), frame_size being the
\* engine's current frame size: the black box the last 60 seconds of frames,
\* the capture buffer the last slider-duration seconds.
C12_RingHoldsDuration ==
    /\ black_box_buffer =
          LastN(emitted, Min(Len(emitted),
                             DurationCapacity(BlackBoxSeconds, input_rate)))
    /\ capture_buffer =
          LastN(capture_history,
                Min(Len(capture_history),
                    DurationCapacity(slider_capture_duration, SAMPLE_RATE)))

\* What the black box can hold: the deque's maxlen, or max_chunks if smaller.
BlackBoxCapacity == Min(black_box_maxlen, MaxChunks)

\* C13: eviction is FIFO drop-oldest. After n appends a ring buffer of capacity
\* K holds exactly the last min(n, K) appended frames in append order (so after
\* K+1 appends it holds K frames and the first one is gone); this for the black
\* box and for the capture buffer.
C13_RingHoldsLastK ==
    /\ black_box_buffer = LastN(emitted, Min(Len(emitted), BlackBoxCapacity))
    /\ capture_buffer =
          LastN(capture_history, Min(Len(capture_history), capture_maxlen))

\* C13 witness: both buffers have taken one frame more than they hold, and the
\* first frame is in neither.
C13_BothBuffersOverflowed ==
    /\ Len(emitted) > BlackBoxCapacity
    /\ Len(black_box_buffer) = BlackBoxCapacity
    /\ Len(capture_history) = capture_maxlen + 1
    /\ Len(capture_buffer) = capture_maxlen
    /\ 1 \notin Range(black_box_buffer) \cup Range(capture_buffer)

\* A save_black_box() call returns with the given outcome.
SaveEnds(outcome) ==
    /\ Len(returned') = Len(returned) + 1
    /\ returned'[Len(returned')].outcome = outcome

\* C14: a black-box flush reports its two failures and leaves the pipeline
\* alone: flushing an empty buffer and flushing to an unwritable destination
\* each fail, write no artifact, return values the caller can tell apart, and
\* leave the ring buffer, the analysis queue and the running flag unchanged.
C14_FlushFailuresDistinguished ==
    /\ [](\A i, j \in 1..Len(returned) :
             (returned[i].outcome = "empty" /\ returned[j].outcome = "write")
                => returned[i].value # returned[j].value)
    /\ [][(SaveEnds("empty") \/ SaveEnds("write"))
            => /\ path' = NoPath
               /\ UNCHANGED <<files, black_box_buffer, analysis_queue,
                              running>>]_vars

C17_CalibrateRejectsBadShape ==
    [][(last_call' = "capture_noise_profile" /\ ~ShapeOk(magnitude_buffer'))
          => /\ profile_outcome' = "raised"
             /\ UNCHANGED <<noise_mean, noise_std, is_calibrated>>]_vars

\* The last call on the processor was apply_spectral_gate().
GateReturned == last_call \in {"apply_spectral_gate", "gate_again"}

\* C18: while the processor holds no noise profile, apply_spectral_gate()
\* returns its argument unchanged, whatever the frame and whatever the spectral
\* floor and the oversubtraction factor are set to.
C18_UncalibratedGateIsIdentity ==
    (GateReturned /\ ~is_calibrated) => gated_magnitude = magnitude_data

\* C18 witness: an uncalibrated processor with neither tuning parameter at
\* its default has gated a frame that is not silent.
C18_UncalibratedGateCalled ==
    /\ last_call = "apply_spectral_gate"
    /\ ~is_calibrated
    /\ spectral_floor # DefaultSpectralFloor
    /\ oversubtraction # DefaultOversubtraction
    /\ \E b \in Bins : magnitude_data[b] > 0

\* C19: on a calibrated processor the gate of a non-negative frame is, in
\* every bin, at least the frame times the spectral floor and at most the
\* frame.
C19_GateBetweenFloorAndInput ==
    (GateReturned /\ is_calibrated)
        => \A b \in Bins :
              /\ gated_magnitude[b] >= Times(magnitude_data[b], spectral_floor)
              /\ gated_magnitude[b] <= magnitude_data[b]

\* C19 witness: a calibrated gate has returned a frame with a bin held at the
\* floor (the subtraction alone would have gone below it) and a bin reduced
\* by the subtraction but kept above the floor.
C19_FloorAndSubtractionBothActed ==
    /\ last_call = "apply_spectral_gate"
    /\ is_calibrated
    /\ \E b \in Bins :
          /\ magnitude_data[b] > 0
          /\ gated_magnitude[b] = Times(magnitude_data[b], spectral_floor)
          /\ magnitude_data[b] - Times(noise_mean[b], oversubtraction)
                < gated_magnitude[b]
    /\ \E b \in Bins :
          /\ gated_magnitude[b] < magnitude_data[b]
          /\ gated_magnitude[b] > Times(magnitude_data[b], spectral_floor)

\* With the present profile and settings, gating a gated frame gives the
\* gated frame again, for every frame.
Idempotent ==
    \A x \in Spectra :
        apply_spectral_gate(apply_spectral_gate(x)) = apply_spectral_gate(x)

\* The second gating of a frame gave, in every bin, at most the first.
RegateBelow == \A b \in Bins : gated_magnitude[b] <= magnitude_data[b]

\* C20 as stated: after calibration, with the default oversubtraction factor
\* gating a gated frame gives at most the gated frame in every bin, and
\* gating is idempotent for all frames only if the factor is 0.
C20_IdempotentOnlyIfFactorZero ==
    /\ (last_call = "gate_again" /\ is_calibrated
           /\ oversubtraction = DefaultOversubtraction) => RegateBelow
    /\ (is_calibrated /\ Idempotent) => oversubtraction = 0

\* C20, amended: after calibration, gating a gated frame gives at most the
\* gated frame in every bin for every oversubtraction factor, and gating is
\* idempotent for all frames exactly when the factor is 0 or the noise mean
\* is 0 in every bin.
C20_IdempotentIffNothingSubtracted ==
    /\ (last_call = "gate_again" /\ is_calibrated) => RegateBelow
    /\ is_calibrated =>
          (Idempotent <=>
              (oversubtraction = 0 \/ \A b \in Bins : noise_mean[b] = 0))

\* C20 witness: a processor calibrated on silence, its oversubtraction factor
\* at the default, has gated a gated frame that is not silent and returned
\* it unchanged.
C20_RegatedOverSilentProfile ==
    /\ last_call = "gate_again"
    /\ is_calibrated
    /\ oversubtraction = DefaultOversubtraction
    /\ \A b \in Bins : noise_mean[b] = 0
    /\ \E b \in Bins : magnitude_data[b] > 0
    /\ gated_magnitude = magnitude_data

\* C21: detect_anomaly() on a processor that was never calibrated returns
\* False for every frame and threshold, rejected capture_noise_profile()
\* calls included.
C21_UncalibratedNeverDetects ==
    (last_call = "detect_anomaly" /\ ~is_calibrated) => is_anomaly = FALSE

\* C21 witness: after a rejected calibration call, a never-calibrated
\* processor was asked about a frame that is not silent, at the lowest
\* threshold.
C21_DetectAfterRejection ==
    /\ last_call = "detect_anomaly"
    /\ ~is_calibrated
    /\ rejections > 0
    /\ threshold = Scale
    /\ \E b \in Bins : magnitude_data[b] > 0

\* Bin b of the frame lies more than t noise standard deviations above the
\* noise mean.
BinExceeds(b, t) ==
    (magnitude_data[b] - noise_mean[b]) * Scale > t * noise_std[b]

\* C22: on a calibrated processor detect_anomaly() returns True exactly when
\* some bin's z-score is strictly greater than the threshold.
C22_DetectsIffSomeBinExceeds ==
    (last_call = "detect_anomaly" /\ is_calibrated)
        => (is_anomaly <=> \E b \in Bins : BinExceeds(b, threshold))

\* C22 witness: the largest z-score equals the threshold and the call
\* returned False.
C22_MaximumAtThreshold ==
    /\ last_call = "detect_anomaly"
    /\ is_calibrated
    /\ ~is_anomaly
    /\ \E b \in Bins :
          (magnitude_data[b] - noise_mean[b]) * Scale = threshold * noise_std[b]

\* The last slot that ran was run_identification().
IdentificationRan == identified.outcome # "none"

\* C23: with the processor calibrated and the detection threshold at 3.0, a
\* latest frame that is the noise mean plus ten standard deviations in one bin
\* is detected as an anomaly, and the bin reported with the detection is that
\* bin.
C23_ReportedBinIsImpulseBin ==
    \A b \in Bins :
        (/\ IdentificationRan
         /\ is_calibrated
         /\ detection_threshold = 3 * Scale
         /\ latest_magnitude = ImpulseFrame(b))
            => /\ identified.is_anomaly
               /\ identified.anomaly_bin # 0 => identified.anomaly_bin = b

\* The 1-D score of a template array against a gated frame: the dot product of
\* the frame scaled to unit norm with the template.
ScoreOf(gated, template) ==
    Dot([b \in Bins |-> (gated[b] * Scale) \div Norm(gated)], template)

\* The template arrays held under the loaded profiles, in dict order.
TemplateOf(i) == profiles[i].data.value

\* An anomaly was found with profiles loaded, so the profiles were scanned.
ProfilesScanned ==
    IdentificationRan /\ identified.is_anomaly /\ profiles # <<>>

\* C24: a scan of the profiles ends with the name of the first profile of
\* maximal score, shown as the match exactly when that score is strictly
\* above the identification threshold, and with UNKNOWN otherwise.
C24_ReportsBestTemplate ==
    ProfilesScanned =>
        /\ identified.outcome = "returned"
        /\ LET gated == identified.gated_magnitude
               best == CHOOSE i \in 1..Len(profiles) :
                          /\ \A j \in 1..Len(profiles) :
                                ScoreOf(gated, TemplateOf(j)) <= ScoreOf(gated, TemplateOf(i))
                          /\ \A j \in 1..(i - 1) :
                                ScoreOf(gated, TemplateOf(j)) < ScoreOf(gated, TemplateOf(i))
           IN  identified.lbl_identity =
                   IF ScoreOf(gated, TemplateOf(best)) > IdentificationThreshold
                   THEN profiles[best].name ELSE "UNKNOWN SIGNAL"

\* C25: every 1-D template in the database has L2 norm 1, and the 1-D
\* score of a gated frame against any stored template is at most 1.
C25_StoredTemplatesUnitNorm ==
    \A i \in 1..Len(db_profiles) :
        db_profiles[i].type = "1D" =>
            /\ Norm(db_profiles[i].data.value) = Scale
            /\ \A frame \in Spectra :
                  Norm(frame) > 0 => ScoreOf(frame, db_profiles[i].data.value) <= Scale

\* The gated frame of the last scan, scaled to unit norm.
LiveSignalNorm ==
    [b \in Bins |->
        (identified.gated_magnitude[b] * Scale) \div Norm(identified.gated_magnitude)]

\* C26: a scan scores a 1-D template that equals the normalized live vector
\* exactly 1.0, and a template orthogonal to the live vector 0.0.
C26_SelfScoreOneOrthogonalZero ==
    ProfilesScanned =>
        /\ identified.outcome = "returned"
        /\ (\E i \in 1..Len(profiles) : TemplateOf(i) = LiveSignalNorm)
              => identified.highest_score = Scale
        /\ (\A i \in 1..Len(profiles) :
                Dot(identified.gated_magnitude, TemplateOf(i)) = 0)
              => identified.highest_score = 0

\* The names a sequence of rows or of dict items holds.
NamesOf(items) == {items[i].name : i \in 1..Len(items)}

\* C27: a load after save(name, kind, data) maps name to an array equal to
\* the saved data, as long as no later save or delete of that name came
\* between.
C27_LoadReturnsSavedData ==
    [][LoadProfiles =>
         \A name \in ProfileNames :
            saved[name] # NoArray =>
               \E i \in 1..Len(profiles') :
                  /\ profiles'[i].name = name
                  /\ profiles'[i].data = saved[name]]_vars

\* C28: the store and every load hold at most one template per name, a
\* deleted name is absent from the store and from every load until it is
\* saved again, and the data stored under a name never changes.
C28_UniqueNamesImmutableData ==
    /\ [](/\ \A i, j \in 1..Len(db_profiles) :
               db_profiles[i].name = db_profiles[j].name => i = j
          /\ \A i, j \in 1..Len(profiles) :
               profiles[i].name = profiles[j].name => i = j
          /\ NamesOf(db_profiles) = {name \in ProfileNames : saved[name] # NoArray})
    /\ [][/\ LoadProfiles => NamesOf(profiles') = NamesOf(db_profiles)
          /\ \A i \in 1..Len(db_profiles), j \in 1..Len(db_profiles') :
                db_profiles[i].name = db_profiles'[j].name
                   => db_profiles[i].data = db_profiles'[j].data]_vars

\* C29: with equal input and output rates (resample ratio 1.0) the bytes
\* written to the output device are the bytes read from the input device.
C29_UnitRatioPassesThrough ==
    (forward_pc = "written" /\ resample_ratio[1] = resample_ratio[2])
        => written_bytes = raw_bytes

\* C29 witness: a two-channel frame holding both ends of the int16 range went
\* through at ratio 1.0.
C29_PassedThroughExtremes ==
    /\ forward_pc = "written"
    /\ resample_ratio[1] = resample_ratio[2]
    /\ channels = 2
    /\ \E k, l \in 1..Len(FromBuffer(written_bytes)) :
          /\ FromBuffer(written_bytes)[k] = -32768
          /\ FromBuffer(written_bytes)[l] = 32767

\* round(n * ratio), halves upwards.
RoundedLength(n) ==
    (2 * n * resample_ratio[1] + resample_ratio[2]) \div (2 * resample_ratio[2])

\* C30: for a ratio other than 1.0 the output has, per channel, a length
\* within one sample of round(input length x ratio), and every sample written
\* is the integer part of a value inside [-32768, 32767]: the cast wraps
\* nothing.
C30_ResampledLengthAndRange ==
    (forward_pc = "written" /\ resample_ratio[1] # resample_ratio[2])
        => LET out == FromBuffer(written_bytes)
               per_channel == Len(out) \div channels
               expected == RoundedLength(Len(FromBuffer(raw_bytes)) \div channels)
           IN  /\ Len(out) = per_channel * channels
               /\ per_channel >= expected - 1
               /\ per_channel <= expected + 1
               /\ Len(out) = Len(output_data_float)
               /\ \A k \in 1..Len(out) :
                     /\ output_data_float[k][1] >= -32768 * output_data_float[k][2]
                     /\ output_data_float[k][1] <= 32767 * output_data_float[k][2]
                     /\ out[k] = Truncated(output_data_float[k])

\* C30 witness: a two-channel frame was stretched, and a sample that lies
\* strictly between two input samples of opposite ends was written.
C30_InterpolatedBetweenExtremes ==
    /\ forward_pc = "written"
    /\ resample_ratio[1] > resample_ratio[2]
    /\ channels = 2
    /\ \E k \in 1..Len(output_data_float) :
          /\ output_data_float[k][2] > 1
          /\ output_data_float[k][1] % output_data_float[k][2] # 0
    /\ \E k, l \in 1..Len(FromBuffer(written_bytes)) :
          /\ FromBuffer(written_bytes)[k] = -32768
          /\ FromBuffer(written_bytes)[l] = 32767

\* Frames the capture loop has read and not yet put, dropped or failed on.
AtCapture == IF cap_pc \in {"write", "offload", "put"} THEN {raw_data} ELSE {}

Lifecycle ==
    IF cap_pc \in {"run", "open_in", "open_out"} \/ (cap_pc = "cleanup" /\ failed)
      THEN "Starting"
    ELSE IF CaptureLoopRunning THEN "Running"
    ELSE IF \/ cap_pc = "cleanup"
            \/ cap_pc = "finished" /\ ~failed /\ main_pc \in {"stop_wait", "stop_join"}
      THEN "Stopping"
    ELSE "Stopped"

\* restart() is stop() followed at once by start(): its Stopped state lasts no
\* step of its own.
LifecycleTransitions ==
    {<<"Stopped", "Starting">>, <<"Starting", "Running">>, <<"Running", "Stopping">>,
     <<"Stopping", "Stopped">>, <<"Starting", "Stopped">>}
        \cup (IF in_restart THEN {<<"Stopping", "Starting">>} ELSE {})

\* The lifecycle moves along the listed transitions only.
LifecycleFollowsTransitions ==
    [][Lifecycle' # Lifecycle => <<Lifecycle, Lifecycle'>> \in LifecycleTransitions]_vars

\* A loop handles a frame only in Running, with both streams open.
LoopsProcessOnlyInRunning ==
    /\ cap_pc \in {"read", "write", "offload", "put"} =>
          /\ Lifecycle = "Running"
          /\ dev.input_stream = "open" /\ dev.output_stream = "open"
    /\ \A t \in Threads : a_pc[t] = "process" => Lifecycle = "Running"

\* No loop is active in Stopped.
NoLoopInStopped ==
    Lifecycle = "Stopped" => (~CaptureLoopRunning /\ \A t \in Threads : ~Alive(t))

\* C32: the lifecycle follows Stopped -> Starting -> Running -> Stopping ->
\* Stopped (and Starting -> Stopped on a failed start); the capture and the
\* analysis loop handle frames only between the opening of the streams and the
\* end of the session, and no loop is active in Stopped.
C32_LifecycleOfLoops ==
    /\ LifecycleFollowsTransitions
    /\ []LoopsProcessOnlyInRunning
    /\ []NoLoopInStopped

\* C33: the hand-off channel is bounded. The analysis queue never holds more
\* than its capacity, and the only step that adds to it is the capture loop's
\* put, one frame at a time and with the queue below capacity.
C33_QueueBounded ==
    /\ [](Len(analysis_queue) <= QueueMaxsize)
    /\ [][Len(analysis_queue') > Len(analysis_queue) =>
             /\ cap_pc = "put"
             /\ Len(analysis_queue) < QueueMaxsize
             /\ analysis_queue' = Append(analysis_queue, raw_data)]_vars

\* C33 witness: the queue is at capacity and the frame the capture loop has
\* just offered was turned away.
C33_FullQueueTurnedFrameAway ==
    /\ Len(analysis_queue) = QueueMaxsize
    /\ cap_pc = "loop"
    /\ raw_data \in dropped
    /\ raw_data \notin Range(analysis_queue)

\* C34: the noise standard deviation is strictly positive in every state of
\* the processor: each of its NumBins entries is at least the epsilon of line
\* 73, before calibration, after a successful one and after a rejected one.
C34_NoiseStdPositive ==
    /\ Len(noise_std) = NumBins
    /\ \A b \in 1..Len(noise_std) : noise_std[b] > 0 /\ noise_std[b] >= StdEpsilon

\* C34 witness: a calibration over two frames that agree in some bin has
\* succeeded, and that bin's standard deviation is the epsilon.
C34_CalibratedOnConstantBin ==
    /\ last_call = "capture_noise_profile"
    /\ is_calibrated
    /\ Len(magnitude_buffer) >= 2
    /\ \E b \in Bins :
          /\ \A i \in 1..Len(magnitude_buffer) :
                magnitude_buffer[i][b] = magnitude_buffer[1][b]
          /\ noise_std[b] = StdEpsilon

\* A 2-D template the scan has to skip: its width is not the live cutoff, or
\* the live region it would be laid over has another shape.
Mismatched(item, cutoff_index, full_spectrogram_data) ==
    /\ item.data.ndim = 2
    /\ LET prof_h == Len(item.data.value)
           prof_w == Len(item.data.value[1])
           live_slice == LiveSlice(full_spectrogram_data, prof_h, prof_w)
       IN  \/ prof_w # cutoff_index
           \/ Len(live_slice) # prof_h
           \/ Len(live_slice[1]) # prof_w

\* The loaded profiles without the templates the scan has to skip.
WithoutMismatched(cutoff_index, full_spectrogram_data) ==
    SelectSeq(profiles,
              LAMBDA item : ~Mismatched(item, cutoff_index, full_spectrogram_data))

\* C36: shape-mismatched 2-D templates are skipped. An identification tick that
\* scans profiles holding such templates ends as the scan of the other
\* profiles alone would: they add no score, leave the best match and the best
\* score alone, and do not abort the scan.
C36_MismatchedTemplatesSkipped ==
    [][\A zoom \in ZoomValues, data \in SpectrogramData :
          (/\ RunIdentification(zoom, data)
           /\ detect_anomaly(latest_magnitude, detection_threshold)
           /\ \E i \in 1..Len(profiles) :
                 Mismatched(profiles[i], CutoffIndex(zoom), data))
          => LET others == Scan(WithoutMismatched(CutoffIndex(zoom), data),
                                apply_spectral_gate(latest_magnitude),
                                CutoffIndex(zoom), data, "---", 0)
             IN  /\ identified'.outcome =
                        (IF others.raised THEN "raised" ELSE "returned")
                 /\ identified'.best_match = others.best_match
                 /\ identified'.highest_score = others.highest_score]_vars

NoiseModel == <<noise_mean, noise_std, is_calibrated>>

\* C35: the noise model is written by calibration only. A step changes the
\* noise mean, the standard deviation or the calibrated flag only by a
\* capture_noise_profile() call that accepted its buffer, and no step of the
\* application, switching auto-profiling off included, clears the flag.
C35_NoiseModelWrittenByCalibrationOnly ==
    [][/\ is_calibrated => is_calibrated'
       /\ NoiseModel' # NoiseModel =>
             /\ last_call' = "capture_noise_profile"
             /\ ShapeOk(magnitude_buffer')
             /\ noise_mean' = Mean(magnitude_buffer')
             /\ is_calibrated']_vars

\* C35 witness: after a calibration auto-profiling was switched off, and an
\* identification tick has gated the latest frame and found an anomaly in it;
\* the processor is still calibrated on the profiled frames.
C35_GatedAndScoredAfterProfilingOff ==
    /\ is_calibrated
    /\ ~auto_profiling_enabled
    /\ identified.outcome = "returned"
    /\ identified.is_anomaly
    /\ identified.gated_magnitude # latest_magnitude
    /\ noise_mean = Mean(magnitude_buffer)

\* A step on which the alert is raised: the identification tick reports a bin.
AlertRaised == identified'.anomaly_bin # 0 /\ identified' # identified

\* C37: alerts are rate-limited by the cooldown. The counter stays within
\* 0..CooldownTicks; an alert is raised only on a tick that detects an anomaly
\* with the counter at 0, and sets the counter to CooldownTicks; nothing else
\* raises the counter; and the counter goes down only by one, on a tick that
\* detects no anomaly. So CooldownTicks quiet ticks lie between two alerts.
C37_AlertsRateLimited ==
    /\ [](signal_detected_cooldown \in 0..CooldownTicks)
    /\ [][/\ AlertRaised =>
               /\ detect_anomaly(latest_magnitude, detection_threshold)
               /\ signal_detected_cooldown = 0
               /\ signal_detected_cooldown' = CooldownTicks
          /\ signal_detected_cooldown' > signal_detected_cooldown => AlertRaised
          /\ signal_detected_cooldown' < signal_detected_cooldown =>
               /\ signal_detected_cooldown' = signal_detected_cooldown - 1
               /\ ~detect_anomaly(latest_magnitude, detection_threshold)
               /\ identified'.outcome = "returned"
               /\ ~identified'.is_anomaly]_vars

\* C37 witness: an anomaly is seen while the counter is still running down
\* from an earlier alert, and the tick has raised no alert for it.
C37_AnomalySilencedByCooldown ==
    /\ identified.outcome = "returned"
    /\ identified.is_anomaly
    /\ identified.anomaly_bin = 0
    /\ signal_detected_cooldown > 0
    /\ signal_detected_cooldown < CooldownTicks

\* C38: at most one analysis loop is alive per engine, at any time, restarts
\* and latency-mode changes of a running engine included.
C38_OneAnalysisLoopAlive ==
    Cardinality({t \in Threads : Alive(t)}) <= 1

\* C39: no stale frame crosses a restart. When run() begins a session after
\* restart(), the analysis queue holds no frame: whatever it held would have
\* been captured by the session before.
C39_NoStaleFramesAcrossRestart ==
    (cap_pc = "run" /\ session > 1) => analysis_queue = <<>>

====
